---- MODULE Spec2Model ----
(***************************************************************************)
(* A model of the request-handling core of areion: the trie Router         *)
(* (areion/default/router.py), the RequestBuilder driven by the HTTP       *)
(* parser (areion/core/request_builder.py) and the per-connection loop of  *)
(* HttpServer (areion/core/server.py).                                     *)
(*                                                                         *)
(* Bytes are modelled as tokens: a request line, a header line, the blank  *)
(* line ending the headers, one unit of body, or bytes that violate the    *)
(* HTTP syntax.  A read delivers a sequence of tokens.  Paths are          *)
(* sequences of atoms, an atom being "/", "?" or a word between them.      *)
(***************************************************************************)
EXTENDS Integers, Sequences, FiniteSets, TLC

VARIABLES
    router,     \* HttpServer.router: the trie and the global middlewares
    rb,         \* HttpServer.request_builder: the one RequestBuilder of the server
    pc,         \* per connection: position of its _handle_client task
    script,     \* per connection: the reads the client still has to send
    request,    \* per connection: the local variable `request` of _process_request
    pending,    \* per connection: the handler call the task is suspended in
    wire,       \* per connection: the responses written to the client, in order
    keep_alive, \* per connection: the local variable `keep_alive` of _process_request
    calls,      \* per connection: the dispatches of _handle_http_request, in order
    fed,        \* per connection: number of complete requests its reads delivered
    ended,      \* per connection: how _process_request ended, "" while it runs
    registered, \* the add_route calls made on the router so far, in order
    resolved,   \* the last get_handler call made on the router and its result
    scenario,   \* the application and its clients: which scripts the clients
                \* follow, which middlewares can return without calling on,
                \* which middleware factories raise, what the logger can do
    logged,     \* per connection: the calls its task made to HttpServer.log
    groups,     \* the sub-routers made by Router.group, and the last
                \* registration call made on the router or on one of them
    made,       \* the last HttpResponse constructed, with its formatted bytes
    orch,       \* the Orchestrator: its task list, its executor, its callers
    app         \* the AreionServer: where start() is, its shutdown event, the
                \* callbacks waiting on its own loop, its HTTP server

vars == <<router, rb, pc, script, request, pending, wire, keep_alive, calls, fed, ended,
          registered, resolved, scenario, logged, groups, made, orch, app>>

\* no AreionServer made
NoServer == [none |-> TRUE]

\* Router.group never called; no response constructed yet
NoGroups == [none |-> TRUE]
NoResponse == [none |-> TRUE]

\* the execution contexts that call submit_task, one task each; the future
\* of the task of context c is named c
MaxContexts == 2

Contexts == 1..MaxContexts

\* Orchestrator.__init__: an executor with an empty work queue and no
\* future, an empty task list; with them the position of every context in
\* submit_task, the position of the caller of run_tasks, and the log calls
NewOrchestrator ==
    [tasks |-> <<>>,
     queue |-> <<>>,
     future |-> [t \in Contexts |-> "none"],
     func |-> [t \in Contexts |-> ""],
     runs |-> [t \in Contexts |-> 0],
     sub |-> [c \in Contexts |-> [pc |-> "idle", seen |-> <<>>]],
     runner |-> [pc |-> "idle", fs |-> {}, before |-> {}, yielded |-> {}],
     log |-> <<>>]

(***************************************************************************)
(* Python values                                                           *)
(***************************************************************************)

\* Python's None, as a dictionary key or an attribute value.
None == "<None>"

\* dict[k] = v
Put(f, k, v) == [x \in DOMAIN f \cup {k} |-> IF x = k THEN v ELSE f[x]]

\* {}
EmptyDict == [x \in {} |-> None]

\* dict.get(k, default)
Get(f, k, default) == IF k \in DOMAIN f THEN f[k] ELSE default

\* str.lower() on the names and values that occur
lower(s) ==
    CASE s = "Connection" -> "connection"
      [] s = "CONNECTION" -> "connection"
      [] s = "Content-Length" -> "content-length"
      [] s = "Content-Type" -> "content-type"
      [] s = "Host" -> "host"
      [] s = "X-Trace" -> "x-trace"
      [] s = "Close" -> "close"
      [] s = "CLOSE" -> "close"
      [] s = "Keep-Alive" -> "keep-alive"
      [] OTHER -> s

\* str.upper() on the method names that occur
upper(s) ==
    CASE s = "get" -> "GET"
      [] s = "post" -> "POST"
      [] s = "put" -> "PUT"
      [] s = "delete" -> "DELETE"
      [] s = "patch" -> "PATCH"
      [] s = "Get" -> "GET"
      [] OTHER -> s

\* s.startswith(":")
startswith_colon(s) == s \in {":", ":id", ":x", ":y", ":name"}

\* s[1:]
drop_first(s) ==
    CASE s = ":" -> ""
      [] s = ":id" -> "id"
      [] s = ":x" -> "x"
      [] s = ":y" -> "y"
      [] s = ":name" -> "name"
      [] OTHER -> s

\* reversed(seq)
reversed(s) == [i \in 1..Len(s) |-> s[Len(s) + 1 - i]]

(***************************************************************************)
(* Router (areion/default/router.py)                                       *)
(***************************************************************************)

\* TrieNode()
TrieNode == [handler |-> EmptyDict, is_dynamic |-> FALSE, param_name |-> None]

\* Router()
allowed_methods == <<"GET", "POST", "PUT", "DELETE", "PATCH">>

Range(s) == {s[i] : i \in 1..Len(s)}

NewRouter == [nodes |-> [p \in {<<>>} |-> TrieNode], global_middlewares |-> <<>>]

\* Router._split_path: path.strip("/").split("/") without the empty segments
_split_path(path) == SelectSeq(path, LAMBDA a : a # "/")

\* the list comprehension of add_route: upper-cased methods that are allowed
valid_methods(methods) ==
    SelectSeq([i \in 1..Len(methods) |-> upper(methods[i])],
              LAMBDA m : m \in Range(allowed_methods))

\* a loop over the segments that would keep one child per parameter name
RECURSIVE add_segments_named(_, _, _)
add_segments_named(nodes, current_node, segments) ==
    IF segments = <<>> THEN [nodes |-> nodes, current_node |-> current_node]
    ELSE
        LET segment == Head(segments)
            nodes1 == IF startswith_colon(segment)
                      THEN [nodes EXCEPT ![current_node].is_dynamic = TRUE,
                                         ![current_node].param_name = drop_first(segment)]
                      ELSE nodes
            child == Append(current_node, segment)
            nodes2 == IF child \in DOMAIN nodes1 THEN nodes1
                      ELSE Put(nodes1, child, TrieNode)
        IN add_segments_named(nodes2, child, Tail(segments))

\* the loop over the segments of add_route: returns the nodes and the
\* terminal node reached
RECURSIVE add_segments(_, _, _)
add_segments(nodes, current_node, segments) ==
    IF segments = <<>> THEN [nodes |-> nodes, current_node |-> current_node]
    ELSE
        LET segment0 == Head(segments)
            dyn == startswith_colon(segment0)
            \* segment = ":" is assigned before segment[1:] is taken
            segment == IF dyn THEN ":" ELSE segment0
            nodes1 == IF dyn
                      THEN [nodes EXCEPT ![current_node].is_dynamic = TRUE,
                                         ![current_node].param_name = drop_first(segment)]
                      ELSE nodes
            child == Append(current_node, segment)
            nodes2 == IF child \in DOMAIN nodes1 THEN nodes1
                      ELSE Put(nodes1, child, TrieNode)
        IN add_segments(nodes2, child, Tail(segments))

\* add_route giving the node a new method table
RECURSIVE store_methods_replacing(_, _, _, _)
store_methods_replacing(nodes, node, methods, info) ==
    IF methods = <<>> THEN nodes
    ELSE store_methods_replacing(
            [nodes EXCEPT ![node].handler = Put(EmptyDict, Head(methods), info)],
            node, Tail(methods), info)

\* the loop over the methods of add_route
RECURSIVE store_methods(_, _, _, _)
store_methods(nodes, node, methods, info) ==
    IF methods = <<>> THEN nodes
    ELSE store_methods(
            [nodes EXCEPT ![node].handler = Put(@, Head(methods), info)],
            node, Tail(methods), info)

\* iscoroutinefunction(handler): the asynchronous handlers of the model
iscoroutinefunction(handler) == handler \in {"h_async", "h_item"}

\* Router.add_route raises ValueError
add_route_raises(methods) == valid_methods(methods) = <<>>

\* Router.add_route, when it does not raise
add_route(r, path, handler, methods, middlewares) ==
    LET walked == add_segments(r.nodes, <<>>, _split_path(path))
        info == [handler |-> handler,
                 is_async |-> iscoroutinefunction(handler),
                 middlewares |-> middlewares]
    IN [r EXCEPT !.nodes = store_methods(walked.nodes, walked.current_node,
                                         valid_methods(methods), info)]

\* Router.add_global_middleware
add_global_middleware(r, middleware) ==
    [r EXCEPT !.global_middlewares = Append(@, middleware)]

\* the loop of _apply_middlewares: handler = middleware(handler); a composed
\* handler is the sequence of its layers, outermost first
RECURSIVE wrap_all(_, _)
wrap_all(handler, middlewares) ==
    IF middlewares = <<>> THEN handler
    ELSE wrap_all(<<Head(middlewares)>> \o handler, Tail(middlewares))

\* lines 149-151 of _apply_middlewares without the copy: the global list
\* itself is extended with the middlewares of the route
extend_in_place(global_middlewares, route_middlewares) ==
    [middlewares |-> global_middlewares \o route_middlewares,
     global_middlewares |-> global_middlewares \o route_middlewares]

\* lines 149-151 of _apply_middlewares: `middlewares` is a copy ([:]) of the
\* global list, extended with the middlewares of the route; the two lists
\* after the extend
copy_and_extend(global_middlewares, route_middlewares) ==
    [middlewares |-> global_middlewares \o route_middlewares,
     global_middlewares |-> global_middlewares]

\* _apply_middlewares without reversed(): the first middleware wraps first
\* and ends up innermost
_apply_middlewares_unreversed(r, handler_info) ==
    LET middlewares == r.global_middlewares \o handler_info.middlewares
    IN wrap_all(<<handler_info.handler>>, middlewares)

\* Router._apply_middlewares
_apply_middlewares(r, handler_info) ==
    LET middlewares == copy_and_extend(r.global_middlewares,
                                       handler_info.middlewares).middlewares
    IN wrap_all(<<handler_info.handler>>, reversed(middlewares))

\* return None, None, None
NoneNoneNone == [none |-> TRUE, handler |-> <<>>, path_params |-> EmptyDict,
                 is_async |-> FALSE]

\* a resolution that tries the dynamic child before the literal one
RECURSIVE walk_segments_dynamic_first(_, _, _, _)
walk_segments_dynamic_first(nodes, current_node, segments, path_params) ==
    IF segments = <<>>
    THEN [matched |-> TRUE, current_node |-> current_node, path_params |-> path_params]
    ELSE
        LET segment == Head(segments) IN
        IF Append(current_node, ":") \in DOMAIN nodes
        THEN LET param_node == Append(current_node, ":")
             IN walk_segments_dynamic_first(nodes, param_node, Tail(segments),
                    Put(path_params, nodes[param_node].param_name, segment))
        ELSE IF Append(current_node, segment) \in DOMAIN nodes
        THEN walk_segments_dynamic_first(nodes, Append(current_node, segment),
                                         Tail(segments), path_params)
        ELSE [matched |-> FALSE, current_node |-> current_node,
              path_params |-> path_params]

\* a resolution that stops at the deepest node it reaches and takes it for
\* the match
RECURSIVE walk_segments_prefix(_, _, _, _)
walk_segments_prefix(nodes, current_node, segments, path_params) ==
    IF segments = <<>>
    THEN [matched |-> TRUE, current_node |-> current_node, path_params |-> path_params]
    ELSE
        LET segment == Head(segments) IN
        IF Append(current_node, segment) \in DOMAIN nodes
        THEN walk_segments_prefix(nodes, Append(current_node, segment), Tail(segments),
                                  path_params)
        ELSE IF Append(current_node, ":") \in DOMAIN nodes
        THEN LET param_node == Append(current_node, ":")
             IN walk_segments_prefix(nodes, param_node, Tail(segments),
                    Put(path_params, nodes[param_node].param_name, segment))
        ELSE [matched |-> TRUE, current_node |-> current_node,
              path_params |-> path_params]

\* a resolution that comes back to the dynamic child when the rest of the
\* path fails under the literal one
RECURSIVE walk_segments_backtracking(_, _, _, _)
walk_segments_backtracking(nodes, current_node, segments, path_params) ==
    IF segments = <<>>
    THEN [matched |-> TRUE, current_node |-> current_node, path_params |-> path_params]
    ELSE
        LET segment == Head(segments)
            no_match == [matched |-> FALSE, current_node |-> current_node,
                         path_params |-> path_params]
            static == IF Append(current_node, segment) \in DOMAIN nodes
                      THEN walk_segments_backtracking(nodes, Append(current_node, segment),
                                                      Tail(segments), path_params)
                      ELSE no_match
        IN IF static.matched THEN static
           ELSE IF Append(current_node, ":") \in DOMAIN nodes
           THEN LET param_node == Append(current_node, ":")
                IN walk_segments_backtracking(nodes, param_node, Tail(segments),
                        Put(path_params, nodes[param_node].param_name, segment))
           ELSE no_match

\* the loop over the segments of get_handler: the node reached and the
\* parameters bound, or no match
RECURSIVE walk_segments(_, _, _, _)
walk_segments(nodes, current_node, segments, path_params) ==
    IF segments = <<>>
    THEN [matched |-> TRUE, current_node |-> current_node, path_params |-> path_params]
    ELSE
        LET segment == Head(segments) IN
        IF Append(current_node, segment) \in DOMAIN nodes
        THEN walk_segments(nodes, Append(current_node, segment), Tail(segments),
                           path_params)
        ELSE IF Append(current_node, ":") \in DOMAIN nodes
        THEN LET param_node == Append(current_node, ":")
             IN walk_segments(nodes, param_node, Tail(segments),
                    Put(path_params, nodes[param_node].param_name, segment))
        ELSE [matched |-> FALSE, current_node |-> current_node,
              path_params |-> path_params]

\* Router.get_handler
get_handler(r, method, path) ==
    LET w == walk_segments(r.nodes, <<>>, _split_path(path), EmptyDict) IN
    IF ~w.matched THEN NoneNoneNone
    ELSE IF method \in DOMAIN r.nodes[w.current_node].handler
    THEN LET handler_info == r.nodes[w.current_node].handler[method]
         IN [none |-> FALSE,
             handler |-> _apply_middlewares(r, handler_info),
             path_params |-> w.path_params,
             is_async |-> handler_info.is_async]
    ELSE NoneNoneNone

\* the router as a get_handler(method, path) call leaves it: the walk reads
\* the trie, and _apply_middlewares is the only code of the call that
\* touches a list of the router
left_by_get_handler(r, method, path) ==
    LET w == walk_segments(r.nodes, <<>>, _split_path(path), EmptyDict) IN
    IF w.matched /\ method \in DOMAIN r.nodes[w.current_node].handler
    THEN LET handler_info == r.nodes[w.current_node].handler[method]
         IN [r EXCEPT !.global_middlewares =
                        copy_and_extend(@, handler_info.middlewares).global_middlewares]
    ELSE r

(***************************************************************************)
(* The bytes on the wire                                                   *)
(***************************************************************************)

\* One token of a byte stream.  src = <<connection, index of the request on
\* that connection>> names the request the client sent the bytes for; the
\* program never reads it.
Token(t, method, url, version, name, value, src) ==
    [t |-> t, method |-> method, url |-> url, version |-> version,
     name |-> name, value |-> value, src |-> src, last |-> FALSE]

LineTok(method, url, version, src) == Token("line", method, url, version, "", "", src)
HdrTok(name, value, src) == Token("hdr", "", <<>>, 0, name, value, src)
EohTok(src) == Token("eoh", "", <<>>, 0, "", "", src)
BodyTok(data, src) == Token("body", "", <<>>, 0, "", data, src)
BadTok(src) == Token("bad", "", <<>>, 0, "", "", src)

\* the methods the parser knows (llhttp's method table, as far as used)
ParserMethods == {"GET", "POST", "PUT", "DELETE", "PATCH", "HEAD", "OPTIONS", "CONNECT"}

\* the decimal value of a Content-Length header
content_length(value) ==
    CASE value = "1" -> 1
      [] value = "2" -> 2
      [] value = "3" -> 3
      [] OTHER -> 0

(***************************************************************************)
(* HttpRequest and HttpRequestFactory (areion/core/request.py)             *)
(***************************************************************************)

\* urlparse(path).path and urlparse(path).query
RECURSIVE index_of(_, _, _)
index_of(s, a, i) ==
    IF i > Len(s) THEN 0 ELSE IF s[i] = a THEN i ELSE index_of(s, a, i + 1)

url_path(url) ==
    LET q == index_of(url, "?", 1)
    IN IF q = 0 THEN url ELSE SubSeq(url, 1, q - 1)

url_query(url) ==
    LET q == index_of(url, "?", 1)
    IN IF q = 0 THEN <<>> ELSE SubSeq(url, q + 1, Len(url))

\* HttpRequest.__init__: the attributes it sets.  headers is the dict object
\* passed in: while shares_headers holds it is the builder's own dict
\* (rb.headers), afterwards the copy kept in headers.  psrc, msrc, hsrc and
\* bsrc name the requests whose bytes each part was taken from, and
\* sent_version is the protocol version of the request line; the program
\* reads none of them.
HttpRequest(method, path, headers, body, ghost) ==
    [method |-> method,
     path |-> url_path(path),
     query_params |-> url_query(path),
     headers |-> headers,
     body |-> body,
     shares_headers |-> TRUE,
     psrc |-> ghost.psrc, msrc |-> ghost.msrc, hsrc |-> ghost.hsrc,
     bsrc |-> ghost.bsrc, sent_version |-> ghost.sent_version]

\* HttpRequest.get_header(key): the dict is read with the key as given
get_header(req, key) == Get(req.headers, key, None)

\* orjson.loads on a body: the decoded object, which is not the bytes
orjson_loads(body) == [decoded |-> body]

\* HttpRequest.get_parsed_body() on a request not parsed before, for the
\* content types that occur: None without a body or without the header
get_parsed_body(req) ==
    IF req.body = <<>> THEN None
    ELSE LET content_type == get_header(req, "Content-Type")
         IN IF content_type \in {None, ""} THEN None
            ELSE IF content_type = "application/json" THEN orjson_loads(req.body)
            ELSE [text |-> req.body]

\* HttpRequestFactory.create
create(method, path, headers, body, ghost) ==
    HttpRequest(method, path, headers, body, ghost)

\* no request object (self.request before the first message completes)
NoRequest == [none |-> TRUE]

(***************************************************************************)
(* RequestBuilder (areion/core/request_builder.py) and the parser it owns  *)
(***************************************************************************)

\* httptools.HttpRequestParser(self): a fresh parser
NewParser ==
    [phase |-> "start", method |-> None, msrc |-> <<>>, version |-> 0, remaining |-> 0,
     clen |-> 0, connection |-> "", complete |-> FALSE, error |-> FALSE]

\* a reset that would keep the headers dict
reset_keeping_headers(b) ==
    [b EXCEPT !.method = None, !.path = <<>>, !.http_version = None,
              !.body = <<>>, !.parser = NewParser,
              !.psrc = <<>>, !.msrc = <<>>, !.bsrc = <<>>]

\* RequestBuilder.reset on a builder b: everything but self.request is
\* replaced
reset(b) ==
    [b EXCEPT !.method = None, !.path = <<>>, !.http_version = None,
              !.headers = EmptyDict, !.body = <<>>, !.parser = NewParser,
              !.psrc = <<>>, !.msrc = <<>>, !.hsrc = EmptyDict, !.bsrc = <<>>]

\* RequestBuilder.__init__
NewBuilder ==
    reset([method |-> None, path |-> <<>>, http_version |-> None,
           headers |-> EmptyDict, body |-> <<>>, parser |-> NewParser,
           request |-> NoRequest,
           psrc |-> <<>>, msrc |-> <<>>, hsrc |-> EmptyDict, bsrc |-> <<>>])

\* on_url
on_url(b, tok) == [b EXCEPT !.path = tok.url, !.psrc = tok.src]

\* on_header
on_header(b, tok) ==
    [b EXCEPT !.headers = Put(@, lower(tok.name), tok.value),
              !.hsrc = Put(@, lower(tok.name), tok.src)]

\* the version string of on_headers_complete, from the parser's number
http_version_str(v) ==
    LET major == v \div 10
        minor == v % 10
    IN CASE major = 1 /\ minor = 1 -> "HTTP/1.1"
         [] major = 1 /\ minor = 0 -> "HTTP/1.0"
         [] OTHER -> "HTTP/?"

\* on_headers_complete
on_headers_complete(b) ==
    [b EXCEPT !.method = b.parser.method,
              !.msrc = b.parser.msrc,
              !.http_version = http_version_str(b.parser.version)]

\* on_body
on_body(b, tok) ==
    [b EXCEPT !.body = Append(@, tok.value), !.bsrc = Append(@, tok.src)]

\* the parser's own reading of the message: another message may follow on
\* the connection (HTTP/1.1 without Connection: close, HTTP/1.0 with
\* Connection: keep-alive)
should_keep_alive(p) ==
    IF p.version = 11 THEN p.connection # "close" ELSE p.connection = "keep-alive"

\* on_message_complete; the parser then waits for the next message, or
\* takes no more data when the message ended the connection
on_message_complete(b) ==
    [b EXCEPT !.request =
        create(b.method, b.path, b.headers, b.body,
               [psrc |-> b.psrc, msrc |-> b.msrc, hsrc |-> b.hsrc, bsrc |-> b.bsrc,
                sent_version |-> b.http_version]),
              !.parser.complete = TRUE,
              !.parser.phase = IF should_keep_alive(b.parser) THEN "start" ELSE "closed"]

\* the parser fails: HttpParserError
parser_error(b) == [b EXCEPT !.parser.error = TRUE]

\* the parser on one token, calling the builder's callbacks
parse_token(b, tok) ==
    LET p == b.parser IN
    CASE p.phase = "start" ->
            IF tok.t = "eoh" THEN b    \* an empty line before a request line is skipped
            ELSE IF tok.t = "line" /\ tok.method \in ParserMethods
            THEN on_url([b EXCEPT !.parser.phase = "headers",
                                  !.parser.method = tok.method,
                                  !.parser.msrc = tok.src,
                                  !.parser.version = tok.version,
                                  !.parser.clen = 0,
                                  !.parser.connection = "",
                                  !.parser.complete = FALSE], tok)
            ELSE parser_error(b)
      [] p.phase = "headers" ->
            IF tok.t = "hdr"
            THEN on_header([b EXCEPT !.parser.clen =
                                IF lower(tok.name) = "content-length"
                                THEN content_length(tok.value) ELSE @,
                                     !.parser.connection =
                                IF lower(tok.name) = "connection"
                                THEN lower(tok.value) ELSE @], tok)
            ELSE IF tok.t = "eoh"
            THEN LET b1 == on_headers_complete(b)
                 IN IF p.clen > 0
                    THEN [b1 EXCEPT !.parser.phase = "body",
                                    !.parser.remaining = p.clen]
                    ELSE on_message_complete(b1)
            ELSE parser_error(b)
      [] p.phase = "body" ->
            \* the next bytes are the body, whatever they are
            LET b1 == on_body([b EXCEPT !.parser.remaining = @ - 1], tok)
            IN IF p.remaining = 1 THEN on_message_complete(b1) ELSE b1
      [] p.phase = "closed" ->
            \* data after a message that ended the connection
            IF tok.t = "eoh" THEN b ELSE parser_error(b)

\* parser.feed_data(data): token by token until the data ends or the parser
\* fails; a parser that has failed fails again on every later call
RECURSIVE parser_feed(_, _)
parser_feed(b, data) ==
    IF b.parser.error \/ data = <<>> THEN b
    ELSE parser_feed(parse_token(b, Head(data)), Tail(data))

\* RequestBuilder.feed_data: the builder afterwards
feed_data(b, data) == parser_feed(b, data)

\* RequestBuilder.feed_data raises HttpError(status_code=400)
feed_data_raises(b, data) == feed_data(b, data).parser.error

\* parser.is_message_complete()
is_message_complete(b) == b.parser.complete

\* RequestBuilder.get_request
get_request(b) == b.request

(***************************************************************************)
(* HttpResponse, HttpError and the status table, as HttpServer uses them   *)
(***************************************************************************)

\* HTTP_STATUS_CODES[code]
HTTP_STATUS_CODES(code) ==
    CASE code = 400 -> "Bad Request"
      [] code = 404 -> "Not Found"
      [] code = 405 -> "Method Not Allowed"
      [] code = 408 -> "Request Timeout"
      [] code = 413 -> "Payload Too Large"
      [] code = 500 -> "Internal Server Error"
      [] code = 501 -> "Not Implemented"
      [] OTHER -> "Unknown"

\* HttpResponse(status_code=, body=, content_type=, headers=)
HttpResponse(status_code, body, content_type, headers) ==
    [status_code |-> status_code, body |-> body, content_type |-> content_type,
     headers |-> headers]

\* what a handler call can end in: an HttpResponse returned, another value
\* returned, an HttpError raised, any other exception raised
Outcomes ==
    { [kind |-> "response", status_code |-> 200, text |-> "page"],
      [kind |-> "value", status_code |-> 0, text |-> "plain value"],
      [kind |-> "HttpError", status_code |-> 403, text |-> "Forbidden here"],
      [kind |-> "Exception", status_code |-> 0, text |-> "db password leaked"] }

NoOutcome == [kind |-> "not called", status_code |-> 0, text |-> ""]

\* the response of a middleware that returns without calling the handler it
\* wraps

Denied == [kind |-> "middleware response", status_code |-> 401, text |-> "denied"]

\* the ways a call of a composed handler can go: every layer calls the next
\* and the handler function ends in one of Outcomes, or a middleware returns
\* Denied and nothing below it runs
Returns(chain) ==
    {[trace |-> chain, outcome |-> out] : out \in Outcomes}
    \cup {[trace |-> SubSeq(chain, 1, k), outcome |-> Denied] :
            k \in {j \in 1..(Len(chain) - 1) : chain[j] \in scenario.short_circuiting}}

(***************************************************************************)
(* The router the server is started with                                   *)
(***************************************************************************)

\* the parameter names a handler function declares after `request`
handler_params(handler) ==
    CASE handler = "h_item" -> {"id"}
      [] handler = "h_pair" -> {"x", "y"}
      [] OTHER -> {}

\* the registrations made before the server starts, in order
GlobalMiddlewares == <<"A", "B">>

Route(path, handler, methods, middlewares) ==
    [path |-> path, handler |-> handler, methods |-> methods,
     middlewares |-> middlewares]

Routes ==
    << Route(<<"/", "hello">>, "h_sync", <<"GET">>, <<"C">>),
       Route(<<"/", "items", "/", ":id">>, "h_item", <<"GET">>, <<>>),
       Route(<<"/", "echo">>, "h_async", <<"post", "PUT">>, <<"C", "D">>),
       Route(<<"/", "pairs", "/", ":x", "/", ":y">>, "h_pair", <<"GET">>, <<>>) >>

RECURSIVE add_globals(_, _)
add_globals(r, middlewares) ==
    IF middlewares = <<>> THEN r
    ELSE add_globals(add_global_middleware(r, Head(middlewares)), Tail(middlewares))

RECURSIVE add_routes(_, _)
add_routes(r, routes) ==
    IF routes = <<>> THEN r
    ELSE LET x == Head(routes)
         IN add_routes(add_route(r, x.path, x.handler, x.methods, x.middlewares),
                       Tail(routes))

ServedRouter == add_routes(add_globals(NewRouter, GlobalMiddlewares), Routes)

\* no get_handler call made yet
NoResolution == [none |-> TRUE]

\* the methods class Router defines
RouterAttrs ==
    {"add_route", "group", "route", "get_handler", "_split_path",
     "add_global_middleware", "_apply_middlewares"}

(***************************************************************************)
(* Clients                                                                 *)
(***************************************************************************)

\* the connections the model accepts, numbered in the order of acceptance
MaxConns == 2

Conns == 1..MaxConns

\* a request as the client means it
WireReq(method, url, version, headers, body) ==
    [method |-> method, url |-> url, version |-> version, headers |-> headers,
     body |-> body]

\* its tokens, the last one marked
Tokens(w, src) ==
    LET toks == <<LineTok(w.method, w.url, w.version, src)>>
                \o [i \in 1..Len(w.headers) |->
                        HdrTok(w.headers[i][1], w.headers[i][2], src)]
                \o <<EohTok(src)>>
                \o [i \in 1..Len(w.body) |-> BodyTok(w.body[i], src)]
    IN [i \in 1..Len(toks) |-> IF i = Len(toks) THEN [toks[i] EXCEPT !.last = TRUE]
                                               ELSE toks[i]]

\* the requests the clients of the model send
W_hello_close == WireReq("GET", <<"/", "hello">>, 11, <<<<"Connection", "close">>>>, <<>>)
W_hello == WireReq("GET", <<"/", "hello">>, 11, <<<<"Host", "a">>>>, <<>>)
W_item_close == WireReq("GET", <<"/", "items", "/", "42">>, 11,
                        <<<<"CONNECTION", "Close">>>>, <<>>)
W_echo_close == WireReq("POST", <<"/", "echo", "?", "q">>, 11,
                        <<<<"Content-Length", "2">>, <<"Connection", "close">>>>,
                        <<"b1", "b2">>)
W_json_close == WireReq("POST", <<"/", "echo">>, 11,
                        <<<<"Content-Type", "application/json">>,
                          <<"Content-Length", "1">>, <<"Connection", "close">>>>,
                        <<"{\"a\": 1}">>)
W_nothing_close == WireReq("GET", <<"/", "nothing">>, 10, <<<<"Connection", "close">>>>, <<>>)
W_delete_hello == WireReq("DELETE", <<"/", "hello">>, 10,
                          <<<<"Connection", "Keep-Alive">>>>, <<>>)
W_delete_close == WireReq("DELETE", <<"/", "hello">>, 11, <<<<"Connection", "close">>>>, <<>>)
W_pair_close == WireReq("GET", <<"/", "pairs", "/", "1", "/", "2">>, 11,
                        <<<<"Connection", "close">>>>, <<>>)

W_echo == WireReq("POST", <<"/", "echo">>, 11,
                  <<<<"Content-Length", "2">>, <<"Host", "b">>>>, <<"b1", "b2">>)

W_head_close == WireReq("HEAD", <<"/", "hello">>, 11, <<<<"Connection", "close">>>>, <<>>)
W_options_close == WireReq("OPTIONS", <<"/", "hello">>, 11,
                           <<<<"Connection", "close">>>>, <<>>)
W_big_close == WireReq("POST", <<"/", "echo">>, 11,
                       <<<<"Content-Length", "3">>, <<"Connection", "close">>,
                         <<"Host", "a">>, <<"X-Trace", "t">>, <<"accept", "any">>>>,
                       <<"b1", "b2", "b3">>)

\* HttpServer(buffer_size=...), in tokens: the most one read returns
buffer_size == 9

\* HttpServer(max_conns=...)
max_conns == 1

\* what successive reader.read(buffer_size) calls return for data that has
\* all arrived
RECURSIVE read_chunks(_)
read_chunks(data) ==
    IF Len(data) <= buffer_size THEN <<data>>
    ELSE <<SubSeq(data, 1, buffer_size)>>
         \o read_chunks(SubSeq(data, buffer_size + 1, Len(data)))

ScriptIds == 1..19

\* an application whose middlewares always call on, with clients that send
\* GET, POST and DELETE requests
PlainScenario == [scripts |-> 1..10, short_circuiting |-> {}, raising |-> {},
                  logger_raises |-> {FALSE}]

\* an application whose first global middleware can deny a request, with
\* clients that also send HEAD, OPTIONS and over-sized requests
DenyingScenario == [scripts |-> {1, 2, 4, 7, 11, 12, 13}, short_circuiting |-> {"A"},
                    raising |-> {}, logger_raises |-> {FALSE}]

\* an application with a logger that can raise and a route middleware whose
\* factory raises, with clients that also send a JSON body
FaultyScenario == [scripts |-> {1, 2, 4, 14}, short_circuiting |-> {},
                   raising |-> {"D"}, logger_raises |-> {FALSE, TRUE}]

\* the plain application with clients that send one request in one read or
\* split over several reads, or that stop in the middle of a request
SplitScenario == [scripts |-> {1, 5, 6, 15, 16, 17, 18, 19}, short_circuiting |-> {},
                  raising |-> {}, logger_raises |-> {FALSE}]

\* the reads of client script i on connection c
Script(i, c) ==
    CASE i = 1 -> << Tokens(W_hello_close, <<c, 1>>) >>
      [] i = 2 -> << Tokens(W_hello, <<c, 1>>), Tokens(W_item_close, <<c, 2>>) >>
      [] i = 3 -> << Tokens(W_hello, <<c, 1>>) \o Tokens(W_echo_close, <<c, 2>>) >>
      [] i = 4 -> LET t == Tokens(W_item_close, <<c, 1>>)
                  IN << SubSeq(t, 1, 2), SubSeq(t, 3, 3) >>
      [] i = 5 -> LET t == Tokens(W_echo_close, <<c, 1>>)
                  IN << SubSeq(t, 1, 5), SubSeq(t, 6, 6) >>
      [] i = 6 -> << <<BadTok(<<c, 1>>)>> >>
      [] i = 7 -> << Tokens(W_nothing_close, <<c, 1>>) >>
      [] i = 8 -> << Tokens(W_delete_hello, <<c, 1>>), Tokens(W_hello_close, <<c, 2>>) >>
      [] i = 9 -> << Tokens(W_pair_close, <<c, 1>>) >>
      [] i = 10 -> << Tokens(W_delete_close, <<c, 1>>) >>
      [] i = 11 -> << Tokens(W_head_close, <<c, 1>>) >>
      [] i = 12 -> << Tokens(W_options_close, <<c, 1>>) >>
      [] i = 13 -> read_chunks(Tokens(W_big_close, <<c, 1>>))
      [] i = 14 -> << Tokens(W_json_close, <<c, 1>>) >>
      [] i = 15 -> << Tokens(W_echo_close, <<c, 1>>) >>
      [] i = 16 -> LET t == Tokens(W_echo_close, <<c, 1>>)
                   IN << SubSeq(t, 1, 1), SubSeq(t, 2, 6) >>
      [] i = 17 -> LET t == Tokens(W_echo_close, <<c, 1>>)
                   IN << SubSeq(t, 1, 1), SubSeq(t, 2, 3), SubSeq(t, 4, 6) >>
      [] i = 18 -> << SubSeq(Tokens(W_item_close, <<c, 1>>), 1, 2) >>
      [] i = 19 -> << SubSeq(Tokens(W_echo_close, <<c, 1>>), 1, 5) >>

\* the number of requests a read completes
RECURSIVE count_last(_)
count_last(data) ==
    IF data = <<>> THEN 0
    ELSE (IF Head(data).last THEN 1 ELSE 0) + count_last(Tail(data))

(***************************************************************************)
(* HttpServer (areion/core/server.py)                                      *)
(***************************************************************************)

\* the dict a request's headers attribute refers to, b being the builder
Headers(b, req) == IF req.shares_headers THEN b.headers ELSE req.headers
HeaderSrc(b, req) == IF req.shares_headers THEN b.hsrc ELSE req.hsrc

\* the request as a value: its headers dict read now
Snapshot(b, req) ==
    [req EXCEPT !.headers = Headers(b, req), !.hsrc = HeaderSrc(b, req),
                !.shares_headers = FALSE]

\* self.request_builder.reset() gives the builder a new headers dict: a
\* request made from the old one is from now on its only owner
Detach(b, req) == IF "none" \in DOMAIN req THEN req ELSE Snapshot(b, req)

\* HttpServer.__init__
InitServer ==
    /\ router = ServedRouter
    /\ rb = NewBuilder

\* what _execute_handler does before the handler itself runs:
\* "TypeError" when the call expression fails, "call" when the handler is
\* started (awaited, or handed to the executor)
call_of(res) ==
    IF res.none THEN "TypeError"                    \* **path_params with None
    ELSE IF res.is_async
    THEN IF None \in DOMAIN res.path_params THEN "TypeError"  \* keywords must be strings
         ELSE "call"
    ELSE IF DOMAIN res.path_params # {} THEN "TypeError"
         \* run_in_executor takes no keyword arguments
         ELSE "call"

\* _execute_handler putting the text of any exception into the 500 response
response_of_leaky(out) ==
    IF out.kind \in {"response", "value", "middleware response"}
    THEN HttpResponse(IF out.kind = "value" THEN 200 ELSE out.status_code, out.text,
                      "text/plain", EmptyDict)
    ELSE IF out.kind = "HttpError"
    THEN HttpResponse(out.status_code, out.text, "text/plain", EmptyDict)
    ELSE HttpResponse(500, out.text, "text/plain", EmptyDict)

\* the response _execute_handler returns for an outcome of the handler call
response_of(out) ==
    CASE out.kind = "response" ->
            HttpResponse(out.status_code, out.text, "text/html", EmptyDict)
      [] out.kind = "middleware response" ->
            HttpResponse(out.status_code, out.text, "text/plain", EmptyDict)
      [] out.kind = "value" ->
            HttpResponse(200, out.text, "text/plain", EmptyDict)
      [] out.kind = "HttpError" ->
            HttpResponse(out.status_code, out.text, "text/plain", EmptyDict)
      [] OTHER ->
            HttpResponse(500, HTTP_STATUS_CODES(500), "text/plain", EmptyDict)

TypeErrorOutcome == [kind |-> "TypeError", status_code |-> 0,
                     text |-> "argument after ** must be a mapping"]

\* async_wrapper (router.py 158-159) awaits what the chain of synchronous
\* middlewares returns: the coroutine of the handler when every layer called
\* the next, but a response object when a middleware returned one, and a
\* response object cannot be awaited
AwaitTypeError == [kind |-> "TypeError", status_code |-> 0,
                   text |-> "object HttpResponse can't be used in 'await' expression"]

awaited(is_async, out) ==
    IF is_async /\ out.kind = "middleware response" THEN AwaitTypeError ELSE out

\* lines 166-170: an asynchronous handler is awaited on the event loop, a
\* synchronous one is handed to the executor
executor_of_loop(is_async) == "loop"

executor_of(is_async) == IF is_async THEN "loop" ELSE "executor"

\* _apply_middlewares calls every middleware of the route with the handler
\* composed so far, `handler = middleware(handler)`: get_handler raises when
\* one of them does
get_handler_raises(res) ==
    /\ ~res.none
    /\ Range(res.handler) \cap scenario.raising # {}

RoutingError == [kind |-> "routing error", status_code |-> 0,
                 text |-> "middleware could not wrap"]

\* the branch _handle_http_request takes for a request, res being what
\* get_handler returns when nothing raises in it: "routing error" (get_handler
\* raised), "raise" (an exception leaves _handle_http_request), "respond" (a
\* response without a handler call) or "execute"
branch_of(req, res) ==
    IF get_handler_raises(res) THEN "routing error"
    ELSE IF req.method = "OPTIONS"
    THEN IF "get_allowed_methods" \in RouterAttrs THEN "respond" ELSE "raise"
    ELSE IF req.method = "CONNECT" THEN "respond"
    ELSE "execute"

\* the response of the branches that call no handler
direct_response(req) ==
    IF req.method = "OPTIONS"
    THEN HttpResponse(204, "", "text/plain", EmptyDict)
    ELSE HttpResponse(501, HTTP_STATUS_CODES(501), "text/plain", EmptyDict)

\* the record of one dispatch
Call(req, res, trace, out, response) ==
    [request |-> req, none |-> res.none, path_params |-> res.path_params,
     chain |-> res.handler, trace |-> trace, outcome |-> out, response |-> response]

\* hasattr(request, "http_version")
has_http_version(req) == "http_version" \in DOMAIN req

\* lines 93-97: the condition under which keep_alive becomes False; reading
\* request.http_version raises AttributeError when the request has none
connection_header(b, req) == lower(Get(Headers(b, req), "connection", ""))

closing_raises(b, req) ==
    connection_header(b, req) # "close" /\ ~has_http_version(req)

closing(b, req) ==
    \/ connection_header(b, req) = "close"
    \/ (req.http_version = "HTTP/1.0" /\ connection_header(b, req) # "keep-alive")

\* no handler call in progress
NoPending == [none |-> TRUE]

\* a synchronous function called on the event loop's thread keeps the loop
\* until it returns: no other task runs meanwhile
Stalls(p) == "where" \in DOMAIN p /\ p.where = "loop" /\ ~p.res.is_async

\* the event loop can run the task of connection c
LoopIdle(c) == \A d \in Conns \ {c} : ~Stalls(pending[d])

\* the other connections whose handler is running in the executor
Busy(c) ==
    {d \in Conns \ {c} : pc[d] = "handler" /\ pending[d].where = "executor"}

\* _send_response: the response as written; answers is the index in
\* calls[c] of the dispatch it answers, 0 when it answers none, and busy the
\* connections whose handler was running in the executor at that moment
Written(response, k, busy) ==
    [status_code |-> response.status_code, body |-> response.body,
     content_type |-> response.content_type, headers |-> response.headers,
     answers |-> k, busy |-> busy]

\* HttpServer.log(level, message): the call made to the method of the
\* logger that has the name of the level
log(level, message) == [level |-> level, message |-> message]

\* a _handle_client without its finally clause: the exception is logged and
\* the writer stays open
RaiseAfter_NoFinally(c, before, exception) ==
    /\ pc' = [pc EXCEPT ![c] = "raised"]
    /\ ended' = [ended EXCEPT ![c] = exception]
    /\ logged' = [logged EXCEPT ![c] = (@ \o before) \o <<log("error", exception)>>]

\* an exception leaves _process_request, the task having made the log calls
\* `before` since its last step: _handle_client logs the exception and
\* closes the writer.  Whether the logger raises in this last call changes
\* nothing: the finally clause is all that is left to run.
RaiseAfter(c, before, exception) ==
    /\ pc' = [pc EXCEPT ![c] = "closed"]
    /\ ended' = [ended EXCEPT ![c] = exception]
    /\ logged' = [logged EXCEPT ![c] = (@ \o before) \o <<log("error", exception)>>]

Raise(c, exception) == RaiseAfter(c, <<>>, exception)

\* lines 93-101 for the response of a dispatch that made the log calls
\* `before`: the Connection header is set and the response written, unless
\* reading the version raises
RespondAfter(c, b, req, call, before) ==
    IF closing_raises(b, req)
    THEN /\ RaiseAfter(c, before, "AttributeError")
         /\ UNCHANGED <<wire, keep_alive>>
    ELSE LET close == closing(b, req)
             response == [call.response EXCEPT !.headers =
                            Put(@, "Connection", IF close THEN "close" ELSE "keep-alive")]
         IN /\ wire' = [wire EXCEPT ![c] = Append(@, Written(response, Len(calls[c]) + 1, Busy(c)))]
            /\ keep_alive' = [keep_alive EXCEPT ![c] = ~close]
            /\ pc' = [pc EXCEPT ![c] = "drain"]
            /\ logged' = [logged EXCEPT ![c] = @ \o before]
            /\ UNCHANGED ended

Respond(c, b, req, call) == RespondAfter(c, b, req, call, <<>>)

\* response.body = b"" for HEAD
head_body(req, response) ==
    IF req.method = "HEAD" THEN [response EXCEPT !.body = ""] ELSE response

\* _handle_http_request(request) up to its first suspension, b being the
\* builder after the read.  get_handler raises no MethodNotAllowedError, so
\* the except clause of lines 127-134 is never entered; the one of lines
\* 135-141 is entered when a middleware factory raises, and the log call
\* it makes is outside any try: an exception of the logger leaves
\* _handle_http_request before the 500 response is made.
Dispatch(c, b, req) ==
    LET res == get_handler(router, req.method, req.path)
        br == branch_of(req, res)
    IN /\ request' = [request EXCEPT ![c] = req]
       /\ CASE br = "raise" ->
                /\ Raise(c, "AttributeError")
                /\ UNCHANGED <<pending, wire, keep_alive, calls>>
            [] br = "routing error" ->
                LET call == Call(Snapshot(b, req), NoneNoneNone, <<>>, RoutingError,
                                 HttpResponse(500, HTTP_STATUS_CODES(500), "text/plain",
                                              EmptyDict))
                    entry == log("error", "Routing error: " \o RoutingError.text)
                IN /\ calls' = [calls EXCEPT ![c] = Append(@, call)]
                   /\ UNCHANGED pending
                   /\ \E raises \in scenario.logger_raises :
                        IF raises
                        THEN /\ RaiseAfter(c, <<entry>>, "logger failure")
                             /\ UNCHANGED <<wire, keep_alive>>
                        ELSE RespondAfter(c, b, req, call, <<entry>>)
            [] br = "respond" ->
                LET call == Call(Snapshot(b, req), res, <<>>, NoOutcome,
                                 direct_response(req))
                IN /\ calls' = [calls EXCEPT ![c] = Append(@, call)]
                   /\ Respond(c, b, req, call)
                   /\ UNCHANGED pending
            [] br = "execute" /\ call_of(res) = "TypeError" ->
                LET call == Call(Snapshot(b, req), res, <<>>, TypeErrorOutcome,
                                 head_body(req, response_of(TypeErrorOutcome)))
                IN /\ calls' = [calls EXCEPT ![c] = Append(@, call)]
                   /\ Respond(c, b, req, call)
                   /\ UNCHANGED pending
            [] OTHER ->
                /\ pc' = [pc EXCEPT ![c] = "handler"]
                /\ pending' = [pending EXCEPT ![c] =
                                [res |-> res, where |-> executor_of(res.is_async)]]
                /\ UNCHANGED <<wire, keep_alive, calls, ended, logged>>

\* asyncio.start_server calls _handle_client for a new connection, the
\* c-th one accepted
Accept(c) ==
    /\ pc[c] = "idle"
    /\ LoopIdle(c)
    /\ \A d \in Conns : d < c => pc[d] # "idle"
    /\ \E i \in scenario.scripts : script' = [script EXCEPT ![c] = Script(i, c)]
    /\ pc' = [pc EXCEPT ![c] = "read"]
    /\ UNCHANGED <<router, registered, resolved, scenario, groups, made, orch, app, rb, request, pending, wire, keep_alive, calls, fed, ended, logged>>

\* the task of connection c is waiting in reader.read, data has arrived and
\* the event loop can resume the task; ReadData(c) is enabled exactly then,
\* every branch below it having a next state
ReadReady(c) ==
    /\ pc[c] = "read"
    /\ LoopIdle(c)
    /\ script[c] # <<>>

\* lines 78-91: a read returns data, the builder is fed, and a complete
\* message is dispatched
ReadData(c) ==
    /\ ReadReady(c)
    /\ LET data == Head(script[c])
           b == feed_data(rb, data)
       IN /\ script' = [script EXCEPT ![c] = Tail(@)]
          /\ fed' = [fed EXCEPT ![c] = @ + count_last(data)]
          /\ rb' = b
          /\ IF feed_data_raises(rb, data)
             THEN /\ Raise(c, "HttpError 400")
                  /\ UNCHANGED <<request, pending, wire, keep_alive, calls>>
             ELSE IF ~is_message_complete(b)
             THEN UNCHANGED <<pc, request, pending, wire, keep_alive, calls, ended, logged>>
             ELSE Dispatch(c, b, get_request(b))
    /\ UNCHANGED <<router, registered, resolved, scenario, groups, made, orch, app>>

\* lines 164-185 and 93-101: the handler call ends, its outcome becomes the
\* response, and the response is written
HandlerReturn(c) ==
    /\ pc[c] = "handler"
    /\ LoopIdle(c)
    /\ \E ret \in Returns(pending[c].res.handler) :
        LET res == pending[c].res
            req == request[c]
            chain == res.handler
            handler == chain[Len(chain)]
            bad_keyword == /\ ret.trace = chain
                           /\ ~(DOMAIN res.path_params \subseteq handler_params(handler))
            trace == IF bad_keyword THEN SubSeq(chain, 1, Len(chain) - 1) ELSE ret.trace
            out1 == IF bad_keyword THEN TypeErrorOutcome ELSE ret.outcome
            call == Call(Snapshot(rb, req), res, trace, out1,
                         head_body(req, response_of(awaited(res.is_async, out1))))
        IN /\ calls' = [calls EXCEPT ![c] = Append(@, call)]
           /\ Respond(c, rb, req, call)
    /\ pending' = [pending EXCEPT ![c] = NoPending]
    /\ UNCHANGED <<router, registered, resolved, scenario, groups, made, orch, app, rb, script, request, fed>>

\* lines 101-103 and 75: the write has drained, the builder is reset, and
\* the loop goes on or ends
Drained(c) ==
    /\ pc[c] = "drain"
    /\ LoopIdle(c)
    /\ rb' = [reset(rb) EXCEPT !.request = Detach(rb, rb.request)]
    /\ request' = [d \in Conns |-> Detach(rb, request[d])]
    /\ IF keep_alive[c]
       THEN /\ pc' = [pc EXCEPT ![c] = "read"]
            /\ UNCHANGED ended
       ELSE /\ pc' = [pc EXCEPT ![c] = "closed"]
            /\ ended' = [ended EXCEPT ![c] = "close"]
    /\ UNCHANGED <<router, registered, resolved, scenario, groups, made, orch, app, logged, script, pending, wire, keep_alive, calls, fed>>

\* a timeout that only leaves the loop, writing nothing
Timeout_NoResponse(c) ==
    /\ pc[c] = "read"
    /\ pc' = [pc EXCEPT ![c] = "closed"]
    /\ ended' = [ended EXCEPT ![c] = "timeout"]
    /\ UNCHANGED <<router, registered, resolved, scenario, groups, made, orch, app, logged, rb, script, request, pending, wire, keep_alive, calls, fed>>

\* lines 105-113: the read times out
Timeout(c) ==
    /\ pc[c] = "read"
    /\ LoopIdle(c)
    /\ wire' = [wire EXCEPT ![c] = Append(@,
                    Written(HttpResponse(408, HTTP_STATUS_CODES(408), "text/plain",
                                         Put(EmptyDict, "Connection", "close")),
                            0, Busy(c)))]
    /\ pc' = [pc EXCEPT ![c] = "closed"]
    /\ ended' = [ended EXCEPT ![c] = "timeout"]
    /\ UNCHANGED <<router, registered, resolved, scenario, groups, made, orch, app, logged, rb, script, request, pending, keep_alive, calls, fed>>

\* lines 81-82: the client has closed its side, the read returns no data
Eof(c) ==
    /\ pc[c] = "read"
    /\ LoopIdle(c)
    /\ script[c] = <<>>
    /\ pc' = [pc EXCEPT ![c] = "closed"]
    /\ ended' = [ended EXCEPT ![c] = "eof"]
    /\ UNCHANGED <<router, registered, resolved, scenario, groups, made, orch, app, logged, rb, script, request, pending, wire, keep_alive, calls, fed>>

Serving(sc) ==
    /\ scenario = sc
    /\ InitServer
    /\ pc = [c \in Conns |-> "idle"]
    /\ script = [c \in Conns |-> <<>>]
    /\ request = [c \in Conns |-> NoRequest]
    /\ pending = [c \in Conns |-> NoPending]
    /\ wire = [c \in Conns |-> <<>>]
    /\ keep_alive = [c \in Conns |-> TRUE]
    /\ calls = [c \in Conns |-> <<>>]
    /\ fed = [c \in Conns |-> 0]
    /\ ended = [c \in Conns |-> ""]
    /\ logged = [c \in Conns |-> <<>>]
    /\ groups = NoGroups
    /\ made = NoResponse
    /\ orch = NewOrchestrator
    /\ app = NoServer
    /\ registered = Routes
    /\ resolved = NoResolution

Init == Serving(PlainScenario)

Next ==
    \E c \in Conns :
        \/ Accept(c)
        \/ ReadData(c)
        \/ HandlerReturn(c)
        \/ Drained(c)
        \/ Timeout(c)
        \/ Eof(c)

Spec == Init /\ [][Next]_vars

\* the same server with the denying application and its clients
InitDenying == Serving(DenyingScenario)

SpecDenying == InitDenying /\ [][Next]_vars

\* the same server with the faulty application and its clients
InitFaulty == Serving(FaultyScenario)

SpecFaulty == InitFaulty /\ [][Next]_vars

\* the plain application with clients that end their connections in every
\* way: a served Connection: close, a parse error, a truncated request
ClosingScenario == [scripts |-> {1, 6, 18}, short_circuiting |-> {},
                    raising |-> {}, logger_raises |-> {FALSE}]

InitClosing == Serving(ClosingScenario)

\* a step the task of some accepted connection takes without new data from
\* its client
TaskStep ==
    \E c \in Conns : HandlerReturn(c) \/ Drained(c) \/ Timeout(c) \/ Eof(c)

\* The event loop runs a task that is ready: a read that gets no data ends
\* with end of file or with the timeout of wait_for, a handler call returns,
\* and the small responses of the model are below the high-water mark of the
\* transport, so that drain() returns.  Nothing is assumed of the clients:
\* they may send their data or not.
SpecClosing == InitClosing /\ [][Next]_vars /\ WF_vars(TaskStep)

\* the same server with the clients that split and truncate their requests
InitSplit == Serving(SplitScenario)

SpecSplit == InitSplit /\ [][Next]_vars

(***************************************************************************)
(* RequestBuilder alone (areion/core/request_builder.py), driven as lines  *)
(* 86-88 and 103 of server.py drive it for one connection: feed each read, *)
(* take the request when the message is complete, reset                    *)
(***************************************************************************)

\* a request in one read, and in two reads split after the request line
Whole(w, src) == << Tokens(w, src) >>

Halves(w, src) ==
    LET t == Tokens(w, src)
    IN << SubSeq(t, 1, 1), SubSeq(t, 2, Len(t)) >>

\* the streams of one connection: a first request that keeps the
\* connection, then a second one
FirstWires == {W_hello, W_delete_hello, W_echo}

SecondWires == {W_item_close, W_hello_close, W_echo_close}

Streams ==
    {first \o second :
        first \in {Whole(w, <<1, 1>>) : w \in FirstWires}
                  \cup {Halves(w, <<1, 1>>) : w \in FirstWires},
        second \in {Whole(w, <<1, 2>>) : w \in SecondWires}
                   \cup {Halves(w, <<1, 2>>) : w \in SecondWires}}

\* feed_data on the next read; a complete message gives the request
BuilderFeed ==
    /\ pc[1] = "read"
    /\ script[1] # <<>>
    /\ LET data == Head(script[1])
           b == feed_data(rb, data)
       IN /\ rb' = b
          /\ script' = [script EXCEPT ![1] = Tail(@)]
          /\ fed' = [fed EXCEPT ![1] = @ + count_last(data)]
          /\ ended' = [ended EXCEPT ![1] = ""]
          /\ IF is_message_complete(b)
             THEN /\ request' = [request EXCEPT ![1] = get_request(b)]
                  /\ calls' = [calls EXCEPT ![1] =
                                Append(@, [request |-> Snapshot(b, get_request(b))])]
                  /\ pc' = [pc EXCEPT ![1] = "drain"]
             ELSE UNCHANGED <<request, calls, pc>>
    /\ UNCHANGED <<router, registered, resolved, scenario, groups, made, orch, app, logged, pending, wire, keep_alive>>

\* reset() after the request was taken
BuilderReset ==
    /\ pc[1] = "drain"
    /\ rb' = [reset(rb) EXCEPT !.request = Detach(rb, rb.request)]
    /\ request' = [d \in Conns |-> Detach(rb, request[d])]
    /\ pc' = [pc EXCEPT ![1] = "read"]
    /\ ended' = [ended EXCEPT ![1] = "reset"]
    /\ UNCHANGED <<router, registered, resolved, scenario, groups, made, orch, app, logged, script, pending, wire, keep_alive, calls, fed>>

BuilderInit ==
    /\ scenario = PlainScenario
    /\ InitServer
    /\ pc = [c \in Conns |-> IF c = 1 THEN "read" ELSE "idle"]
    /\ \E stream \in Streams :
            script = [c \in Conns |-> IF c = 1 THEN stream ELSE <<>>]
    /\ request = [c \in Conns |-> NoRequest]
    /\ pending = [c \in Conns |-> NoPending]
    /\ wire = [c \in Conns |-> <<>>]
    /\ keep_alive = [c \in Conns |-> TRUE]
    /\ calls = [c \in Conns |-> <<>>]
    /\ fed = [c \in Conns |-> 0]
    /\ ended = [c \in Conns |-> ""]
    /\ logged = [c \in Conns |-> <<>>]
    /\ groups = NoGroups
    /\ made = NoResponse
    /\ orch = NewOrchestrator
    /\ app = NoServer
    /\ registered = Routes
    /\ resolved = NoResolution

BuilderNext == BuilderFeed \/ BuilderReset

BuilderSpec == BuilderInit /\ [][BuilderNext]_vars

(***************************************************************************)
(* The router on its own: an application registering routes one by one,    *)
(* and get_handler called on the router as it is then                      *)
(***************************************************************************)

\* the add_route calls the application can make
Candidates ==
    Routes \o
    << Route(<<"/", "hello">>, "h_post", <<"POST">>, <<"D">>),
       Route(<<"/", "items", "/", "new">>, "h_new", <<"GET">>, <<>>),
       Route(<<"/", "hello">>, "h_both", <<"get", "TRACE">>, <<>>) >>

\* the most add_route calls made
MaxRoutes == 3

\* the requests get_handler is called for
ProbeMethods == {"GET", "POST", "PUT"}

ProbePaths ==
    { <<"/", "hello">>, <<"/", "echo">>, <<"/", "items">>, <<"/", "items", "/", "42">>,
      <<"/", "items", "/", "42", "/", "extra">>, <<"/", "items", "/", "new">>,
      <<"/", "pairs", "/", "1", "/", "2">>, <<"/", "hello", "/">> }

\* router.add_route(...) with the arguments a
RegisterRoute(a) ==
    /\ Len(registered) < MaxRoutes
    /\ a \notin Range(registered)
    /\ ~add_route_raises(a.methods)
    /\ router' = add_route(router, a.path, a.handler, a.methods, a.middlewares)
    /\ registered' = Append(registered, a)
    /\ resolved' = NoResolution
    /\ UNCHANGED <<rb, pc, script, request, pending, wire, keep_alive, calls, fed, ended,
                   scenario, logged, groups, made, orch, app>>

\* router.get_handler(method, path); `previous` is what the call before it
\* returned when that call had the same arguments
Resolve(method, path) ==
    /\ resolved' = [method |-> method, path |-> path,
                    result |-> get_handler(router, method, path),
                    previous |-> IF /\ "method" \in DOMAIN resolved
                                    /\ resolved.method = method
                                    /\ resolved.path = path
                                 THEN resolved.result
                                 ELSE [first |-> TRUE]]
    /\ router' = left_by_get_handler(router, method, path)
    /\ UNCHANGED <<registered, rb, pc, script, request, pending, wire,
                   keep_alive, calls, fed, ended, scenario, logged, groups, made, orch, app>>

\* router.add_route(...) with the i-th candidate
Register(i) == RegisterRoute(Candidates[i])

RouterInit ==
    /\ router = add_globals(NewRouter, GlobalMiddlewares)
    /\ rb = NewBuilder
    /\ pc = [c \in Conns |-> "idle"]
    /\ script = [c \in Conns |-> <<>>]
    /\ request = [c \in Conns |-> NoRequest]
    /\ pending = [c \in Conns |-> NoPending]
    /\ wire = [c \in Conns |-> <<>>]
    /\ keep_alive = [c \in Conns |-> TRUE]
    /\ calls = [c \in Conns |-> <<>>]
    /\ fed = [c \in Conns |-> 0]
    /\ ended = [c \in Conns |-> ""]
    /\ logged = [c \in Conns |-> <<>>]
    /\ groups = NoGroups
    /\ made = NoResponse
    /\ orch = NewOrchestrator
    /\ app = NoServer
    /\ registered = <<>>
    /\ resolved = NoResolution
    /\ scenario = PlainScenario

RouterNext ==
    \/ \E i \in 1..Len(Candidates) : Register(i)
    \/ \E method \in ProbeMethods, path \in ProbePaths : Resolve(method, path)

RouterSpec == RouterInit /\ [][RouterNext]_vars

\* an application with literal and parameter routes under one prefix
UserRoutes ==
    << Route(<<"/", "users", "/", "me">>, "h_me", <<"GET">>, <<>>),
       Route(<<"/", "users", "/", ":id">>, "h_user", <<"GET">>, <<>>),
       Route(<<"/", "users", "/", ":name">>, "h_named", <<"POST">>, <<>>),
       Route(<<"/", "users", "/", ":name", "/", "posts">>, "h_posts", <<"GET">>, <<>>),
       Route(<<"/", "users", "/", "me", "/", "a">>, "h_a", <<"GET">>, <<>>),
       Route(<<"/", "users", "/", ":id", "/", "b">>, "h_b", <<"GET">>, <<>>) >>

UserProbeMethods == {"GET", "POST"}

UserProbePaths ==
    { <<"/", "users", "/", "me">>, <<"/", "users", "/", "7">>,
      <<"/", "users", "/", "7", "/", "posts">>, <<"/", "users", "/", "me", "/", "a">>,
      <<"/", "users", "/", "me", "/", "b">>, <<"/", "users", "/", "7", "/", "b">> }

\* router.add_route(...) with the i-th route of that application
RegisterUserRoute(i) == RegisterRoute(UserRoutes[i])

TrieNext ==
    \/ \E i \in 1..Len(UserRoutes) : RegisterUserRoute(i)
    \/ \E method \in UserProbeMethods, path \in UserProbePaths : Resolve(method, path)

TrieSpec == RouterInit /\ [][TrieNext]_vars

(***************************************************************************)
(* Router.group: an application registering routes on its router and on    *)
(* groups of it                                                            *)
(***************************************************************************)

\* str.rstrip("/") and str.lstrip("/") on a path
RECURSIVE rstrip(_)
rstrip(path) ==
    IF path # <<>> /\ path[Len(path)] = "/"
    THEN rstrip(SubSeq(path, 1, Len(path) - 1))
    ELSE path

RECURSIVE lstrip(_)
lstrip(path) == IF path # <<>> /\ Head(path) = "/" THEN lstrip(Tail(path)) ELSE path

\* the groups of the application: api = app.group("/api", [G]),
\* v1 = api.group("/v1/", [H]), admin = app.group("/admin/")
Groups ==
    [api |-> [parent |-> "app", base_path |-> <<"/", "api">>, middlewares |-> <<"G">>],
     v1 |-> [parent |-> "api", base_path |-> <<"/", "v1", "/">>, middlewares |-> <<"H">>],
     admin |-> [parent |-> "app", base_path |-> <<"/", "admin", "/">>,
                middlewares |-> <<>>]]

GroupNames == DOMAIN Groups

\* a router object whose add_route is always the method of the class
add_route_of_class(on) == "Router.add_route"

\* what x.add_route is for the router object x: the method of the class for
\* the router of the application, the closure that group() assigned to the
\* attribute (line 64) for a sub-router
add_route_of(on) == IF on \in GroupNames THEN "add_sub_route" ELSE "Router.add_route"

\* an add_sub_route that would put the middlewares of the group first
add_sub_route_group_first(g, a) ==
    [a EXCEPT !.path = (rstrip(g.base_path) \o <<"/">>) \o lstrip(a.path),
              !.middlewares = g.middlewares \o a.middlewares]

\* add_sub_route of group g: the arguments it calls self.add_route with
add_sub_route(g, a) ==
    [a EXCEPT !.path = (rstrip(g.base_path) \o <<"/">>) \o lstrip(a.path),
              !.middlewares = a.middlewares \o g.middlewares]

\* an add_route that creates the nodes of the path before it looks at the
\* methods
add_route_call_walking(r, a) ==
    IF add_route_raises(a.methods)
    THEN [raised |-> TRUE,
          router |-> [r EXCEPT !.nodes = add_segments(@, <<>>, _split_path(a.path)).nodes]]
    ELSE [raised |-> FALSE,
          router |-> add_route(r, a.path, a.handler, a.methods, a.middlewares)]

\* Router.add_route as a call: ValueError is raised at line 20, before the
\* trie is touched
add_route_call(r, a) ==
    IF add_route_raises(a.methods)
    THEN [raised |-> TRUE, router |-> r]
    ELSE [raised |-> FALSE,
          router |-> add_route(r, a.path, a.handler, a.methods, a.middlewares)]

\* x.add_route(path, handler, methods, middlewares=...) on the router object
\* `on`, objs being the state of every router object: a group hands the call
\* to the add_route of the router it was made on
RECURSIVE call_add_route(_, _, _)
call_add_route(objs, on, a) ==
    IF add_route_of(on) = "Router.add_route"
    THEN LET done == add_route_call(objs[on], a)
         IN [raised |-> done.raised, objs |-> [objs EXCEPT ![on] = done.router],
             passed |-> a]
    ELSE call_add_route(objs, Groups[on].parent, add_sub_route(Groups[on], a))

\* x.route(path, methods, middlewares)(func): the decorator calls
\* self.add_route
route(objs, on, a) == call_add_route(objs, on, a)

\* the registration calls the application can make
GroupCall(on, entry, path, handler, methods, middlewares) ==
    [on |-> on, entry |-> entry,
     args |-> Route(path, handler, methods, middlewares)]

GroupCalls ==
    << GroupCall("api", "add_route", <<"/", "users">>, "h_sync", <<"GET">>, <<"C">>),
       GroupCall("api", "route", <<"users", "/", ":id">>, "h_item", <<"GET">>, <<>>),
       GroupCall("v1", "add_route", <<"/", "ping">>, "h_async", <<"post">>, <<"D">>),
       GroupCall("admin", "route", <<"/", "stats">>, "h_sync", <<"GET">>, <<>>),
       GroupCall("app", "add_route", <<"/", "hello">>, "h_sync", <<"GET">>, <<"C">>),
       GroupCall("api", "add_route", <<"/", "bad">>, "h_sync", <<"INVALID">>, <<>>),
       GroupCall("app", "route", <<"/", "users">>, "h_sync", <<"">>, <<"C">>) >>

GroupProbeMethods == {"GET", "POST"}

GroupProbePaths ==
    { <<"/", "api", "/", "users">>, <<"/", "api", "/", "users", "/", "42">>,
      <<"/", "api", "/", "v1", "/", "ping">>, <<"/", "admin", "/", "stats">>,
      <<"/", "hello">>, <<"/", "users">>, <<"/", "v1", "/", "ping">>,
      <<"/", "api", "/", "bad">>, <<"/", "stats">> }

\* every router object: the router of the application and the sub-routers
RouterObjects ==
    [n \in {"app"} \cup GroupNames |-> IF n = "app" THEN router ELSE groups.sub_routers[n]]

\* the i-th registration call; a call that raises is caught by the
\* application
RegisterOn(i) ==
    LET x == GroupCalls[i]
        done == IF x.entry = "route" THEN route(RouterObjects, x.on, x.args)
                ELSE call_add_route(RouterObjects, x.on, x.args)
    IN /\ Len(registered) < MaxRoutes
       /\ done.raised \/ done.passed \notin Range(registered)
       /\ router' = done.objs["app"]
       /\ groups' = [sub_routers |-> [n \in GroupNames |-> done.objs[n]],
                     last |-> i, raised |-> done.raised, passed |-> done.passed,
                     before |-> router]
       /\ registered' = IF done.raised THEN registered
                         ELSE Append(registered, done.passed)
       /\ resolved' = NoResolution
       /\ UNCHANGED <<rb, pc, script, request, pending, wire, keep_alive, calls, fed,
                      ended, scenario, logged, made, orch, app>>

\* Router.__init__ for the application, then the group() calls: each makes a
\* Router() of its own and changes nothing else
GroupInit ==
    /\ router = add_globals(NewRouter, GlobalMiddlewares)
    /\ groups = [sub_routers |-> [n \in GroupNames |-> NewRouter],
                 last |-> 0, raised |-> FALSE,
                 passed |-> Route(<<>>, "", <<>>, <<>>), before |-> NewRouter]
    /\ rb = NewBuilder
    /\ pc = [c \in Conns |-> "idle"]
    /\ script = [c \in Conns |-> <<>>]
    /\ request = [c \in Conns |-> NoRequest]
    /\ pending = [c \in Conns |-> NoPending]
    /\ wire = [c \in Conns |-> <<>>]
    /\ keep_alive = [c \in Conns |-> TRUE]
    /\ calls = [c \in Conns |-> <<>>]
    /\ fed = [c \in Conns |-> 0]
    /\ ended = [c \in Conns |-> ""]
    /\ logged = [c \in Conns |-> <<>>]
    /\ made = NoResponse
    /\ orch = NewOrchestrator
    /\ app = NoServer
    /\ registered = <<>>
    /\ resolved = NoResolution
    /\ scenario = PlainScenario

GroupNext ==
    \/ \E i \in 1..Len(GroupCalls) : RegisterOn(i)
    \/ \E method \in GroupProbeMethods, path \in GroupProbePaths : Resolve(method, path)

GroupSpec == GroupInit /\ [][GroupNext]_vars

(***************************************************************************)
(* HttpResponse (areion/core/response.py): construction and formatting     *)
(***************************************************************************)

\* the body variants: a str is the sequence of its characters, a bytes
\* object the sequence of its bytes, a dict the sequence of its items (keys
\* and values are strs); "e-acute" and "euro" are the characters U+00E9 and
\* U+20AC
StrBody(text) == [variant |-> "str", text |-> text]
BytesBody(bytes) == [variant |-> "bytes", bytes |-> bytes]
DictBody(items) == [variant |-> "dict", items |-> items]
NoneBody == [variant |-> "None"]

\* str.encode("utf-8") of one character
utf8(ch) ==
    CASE ch = "e-acute" -> <<"c3", "a9">>
      [] ch = "euro" -> <<"e2", "82", "ac">>
      [] OTHER -> <<ch>>

RECURSIVE encode(_)
encode(text) == IF text = <<>> THEN <<>> ELSE utf8(Head(text)) \o encode(Tail(text))

\* json.dumps of one character of a str: ensure_ascii is on
escaped(ch) ==
    CASE ch = "e-acute" -> <<"\\", "u", "0", "0", "e", "9">>
      [] ch = "euro" -> <<"\\", "u", "2", "0", "a", "c">>
      [] OTHER -> <<ch>>

RECURSIVE dumps_str(_)
dumps_str(text) ==
    IF text = <<>> THEN <<>> ELSE escaped(Head(text)) \o dumps_str(Tail(text))

\* json.dumps of the items of a dict, separated by ", "
RECURSIVE dumps_items(_)
dumps_items(items) ==
    IF items = <<>> THEN <<>>
    ELSE LET item == (<<"\"">> \o dumps_str(Head(items)[1]) \o <<"\"", ":", " ", "\"">>)
                     \o dumps_str(Head(items)[2]) \o <<"\"">>
         IN IF Len(items) = 1 THEN item
            ELSE (item \o <<",", " ">>) \o dumps_items(Tail(items))

\* json.dumps(body)
json_dumps(body) == (<<"{">> \o dumps_items(body.items)) \o <<"}">>

\* str(body) for a body that is no dict, str or bytes
str_of(body) == <<"N", "o", "n", "e">>

\* `"<html" in body`
contains_html(text) ==
    \E i \in 1..Len(text) :
        /\ i + 4 <= Len(text)
        /\ SubSeq(text, i, i + 4) = <<"<", "h", "t", "m", "l">>

\* HttpResponse._infer_content_type
_infer_content_type(body) ==
    CASE body.variant = "dict" -> "application/json"
      [] body.variant = "str" ->
            IF contains_html(body.text) THEN "text/html" ELSE "text/plain"
      [] body.variant = "bytes" -> "application/octet-stream"
      [] OTHER -> "text/plain"

\* HttpResponse.__init__(body, status_code, content_type):
\* content_type or self._infer_content_type(body)
HttpResponse__init__(body, status_code, content_type) ==
    [status_code |-> status_code, body |-> body,
     content_type |-> IF content_type \in {None, ""}
                      THEN _infer_content_type(body) ELSE content_type]

\* HttpResponse._format_body
_format_body(body) ==
    CASE body.variant = "dict" -> encode(json_dumps(body))
      [] body.variant = "str" -> encode(body.text)
      [] body.variant = "bytes" -> body.bytes
      [] OTHER -> encode(str_of(body))

\* a Content-Length that counts the characters of the body before encoding
len_body_chars(body) ==
    CASE body.variant = "dict" -> Len(json_dumps(body))
      [] body.variant = "str" -> Len(body.text)
      [] body.variant = "bytes" -> Len(body.bytes)
      [] OTHER -> 0

\* len(body) of format_response, body being self._format_body()
len_body(body) == Len(_format_body(body))

\* the units of the formatted bytes: a line of the head, or one byte of the
\* body
StatusLine(status_code) ==
    [t |-> "status line", name |-> "HTTP/1.1", value |-> status_code, byte |-> ""]
HeaderLine(name, value) == [t |-> "header", name |-> name, value |-> value, byte |-> ""]
BlankLine == [t |-> "blank", name |-> "", value |-> "", byte |-> ""]
BodyByte(b) == [t |-> "byte", name |-> "", value |-> "", byte |-> b]

\* HttpResponse.format_response
format_response(response) ==
    LET body == _format_body(response.body)
    IN << StatusLine(response.status_code),
          HeaderLine("Content-Type", response.content_type),
          HeaderLine("Content-Length", len_body(response.body)),
          BlankLine >>
       \o [i \in 1..Len(body) |-> BodyByte(body[i])]

\* the bodies, status codes and content types the application uses
Bodies ==
    { DictBody(<<>>),
      DictBody(<< <<<<"k">>, <<"e-acute">>>> >>),
      DictBody(<< <<<<"a">>, <<"1">>>>, <<<<"b">>, <<"2">>>> >>),
      StrBody(<<"H", "i">>),
      StrBody(<<"h", "e-acute", "euro">>),
      StrBody(<<"<", "h", "t", "m", "l", ">", "e-acute">>),
      StrBody(<<"<", "b", ">", "H", "i", "<", "/", "b", ">">>),
      StrBody(<<>>),
      BytesBody(<<"00", "ff", "c3">>),
      BytesBody(<<>>),
      NoneBody }

StatusCodes == {200, 404, 500}

ContentTypes == {None, "", "application/xml"}

\* HttpResponse(body=body, status_code=status_code, content_type=content_type)
Construct(body, status_code, content_type) ==
    /\ made' = [response |-> HttpResponse__init__(body, status_code, content_type),
                given |-> content_type, coerced |-> FALSE,
                formatted |-> FALSE, bytes |-> <<>>]
    /\ UNCHANGED <<router, rb, pc, script, request, pending, wire, keep_alive, calls,
                   fed, ended, registered, resolved, scenario, logged, groups, orch, app>>

\* server.py 171-172: what a handler returned is no HttpResponse,
\* HttpResponse(body=response)
Coerce(value) ==
    /\ made' = [response |-> HttpResponse__init__(value, 200, None),
                given |-> None, coerced |-> TRUE,
                formatted |-> FALSE, bytes |-> <<>>]
    /\ UNCHANGED <<router, rb, pc, script, request, pending, wire, keep_alive, calls,
                   fed, ended, registered, resolved, scenario, logged, groups, orch, app>>

\* response.format_response()
Format ==
    /\ "none" \notin DOMAIN made
    /\ made' = [made EXCEPT !.formatted = TRUE, !.bytes = format_response(made.response)]
    /\ UNCHANGED <<router, rb, pc, script, request, pending, wire, keep_alive, calls,
                   fed, ended, registered, resolved, scenario, logged, groups, orch, app>>

ResponseInit ==
    /\ made = NoResponse
    /\ router = NewRouter
    /\ groups = NoGroups
    /\ rb = NewBuilder
    /\ pc = [c \in Conns |-> "idle"]
    /\ script = [c \in Conns |-> <<>>]
    /\ request = [c \in Conns |-> NoRequest]
    /\ pending = [c \in Conns |-> NoPending]
    /\ wire = [c \in Conns |-> <<>>]
    /\ keep_alive = [c \in Conns |-> TRUE]
    /\ calls = [c \in Conns |-> <<>>]
    /\ fed = [c \in Conns |-> 0]
    /\ ended = [c \in Conns |-> ""]
    /\ logged = [c \in Conns |-> <<>>]
    /\ orch = NewOrchestrator
    /\ app = NoServer
    /\ registered = <<>>
    /\ resolved = NoResolution
    /\ scenario = PlainScenario

ResponseNext ==
    \/ \E body \in Bodies, status_code \in StatusCodes, content_type \in ContentTypes :
            Construct(body, status_code, content_type)
    \/ \E value \in Bodies : Coerce(value)
    \/ Format

ResponseSpec == ResponseInit /\ [][ResponseNext]_vars

(***************************************************************************)
(* Orchestrator (areion/default/orchestrator.py): contexts submitting      *)
(* tasks, the threads of the pool running them, a caller of run_tasks      *)
(***************************************************************************)

\* ThreadPoolExecutor(max_workers=max_workers)
max_workers == 4

\* what the tasks do: return a result, or raise an exception
Funcs == {"returns", "raises"}

\* Orchestrator.log(level, message) about a task
orch_log(level, message, t) == [level |-> level, message |-> message, task |-> t]

\* an append that writes back the list as the context saw it when it
\* entered submit_task, with the new future added
list_append_stale(tasks, seen, future) == Append(seen, future)

\* self.tasks.append(future): one call into the list object, which the
\* interpreter lock makes indivisible; `seen` is the list as the context saw
\* it when it entered submit_task
list_append(tasks, seen, future) == Append(tasks, future)

\* an except clause that catches nothing
catches_nothing(outcome) == FALSE

\* `except Exception as e` around future.result() in run_tasks
catches(outcome) == outcome = "exception"

\* the threads of the pool that are running a task
Running == {t \in Contexts : orch.future[t] = "running"}

\* the futures that are done
Done == {t \in Contexts : orch.future[t] \in {"result", "exception"}}

OrchUnchanged ==
    UNCHANGED <<router, rb, pc, script, request, pending, wire, keep_alive, calls,
                fed, ended, registered, resolved, scenario, logged, groups, made, app>>

\* line 25 of submit_task in context c: executor.submit makes the future and
\* puts the work item on the queue, under the lock of the executor
Submit(c, func) ==
    /\ orch.sub[c].pc = "idle"
    /\ orch' = [orch EXCEPT !.future[c] = "pending",
                            !.func[c] = func,
                            !.queue = Append(@, c),
                            !.sub[c] = [pc |-> "submitted", seen |-> orch.tasks]]
    /\ OrchUnchanged

\* lines 26-31 of submit_task in context c: the future is appended to the
\* task list, the submission logged, the future returned
AppendTask(c) ==
    /\ orch.sub[c].pc = "submitted"
    /\ orch' = [orch EXCEPT !.tasks = list_append(@, orch.sub[c].seen, c),
                            !.sub[c].pc = "returned",
                            !.log = Append(@, orch_log("info", "submitted", c))]
    /\ OrchUnchanged

\* a thread of the pool takes the next work item from the queue and runs it
Take ==
    /\ orch.queue # <<>>
    /\ Cardinality(Running) < max_workers
    /\ LET t == Head(orch.queue)
       IN orch' = [orch EXCEPT !.queue = Tail(@),
                               !.future[t] = "running",
                               !.runs[t] = @ + 1]
    /\ OrchUnchanged

\* the task of future t returns or raises: the thread sets the result or
\* the exception of the future
Finish(t) ==
    /\ orch.future[t] = "running"
    /\ orch' = [orch EXCEPT !.future[t] =
                    IF orch.func[t] = "raises" THEN "exception" ELSE "result"]
    /\ OrchUnchanged

\* lines 37-41 of run_tasks: the call is logged and as_completed takes the
\* set of the futures that are in the task list now; `before` is the set of
\* the contexts whose submit_task has returned
RunTasks ==
    /\ orch.runner.pc = "idle"
    /\ orch' = [orch EXCEPT
                    !.runner = [pc |-> "waiting", fs |-> Range(orch.tasks),
                                before |-> {c \in Contexts : orch.sub[c].pc = "returned"},
                                yielded |-> {}],
                    !.log = Append(@, orch_log("info", "running", Len(orch.tasks)))]
    /\ OrchUnchanged

\* lines 41-51 of run_tasks: as_completed yields a future that is done,
\* future.result() returns or raises, and the outcome is logged
Yield(t) ==
    /\ orch.runner.pc = "waiting"
    /\ t \in (orch.runner.fs \cap Done) \ orch.runner.yielded
    /\ IF orch.future[t] = "exception" /\ ~catches(orch.future[t])
       THEN orch' = [orch EXCEPT !.runner.pc = "raised"]
       ELSE orch' = [orch EXCEPT
                        !.runner.yielded = @ \cup {t},
                        !.log = Append(@,
                            IF orch.future[t] = "exception"
                            THEN orch_log("error", "generated an exception", t)
                            ELSE orch_log("info", "completed", t))]
    /\ OrchUnchanged

\* as_completed has yielded every future of its set: run_tasks returns
Return ==
    /\ orch.runner.pc = "waiting"
    /\ orch.runner.yielded = orch.runner.fs
    /\ orch' = [orch EXCEPT !.runner.pc = "returned"]
    /\ OrchUnchanged

OrchInit ==
    /\ orch = NewOrchestrator
    /\ app = NoServer
    /\ made = NoResponse
    /\ router = NewRouter
    /\ groups = NoGroups
    /\ rb = NewBuilder
    /\ pc = [c \in Conns |-> "idle"]
    /\ script = [c \in Conns |-> <<>>]
    /\ request = [c \in Conns |-> NoRequest]
    /\ pending = [c \in Conns |-> NoPending]
    /\ wire = [c \in Conns |-> <<>>]
    /\ keep_alive = [c \in Conns |-> TRUE]
    /\ calls = [c \in Conns |-> <<>>]
    /\ fed = [c \in Conns |-> 0]
    /\ ended = [c \in Conns |-> ""]
    /\ logged = [c \in Conns |-> <<>>]
    /\ registered = <<>>
    /\ resolved = NoResolution
    /\ scenario = PlainScenario

OrchNext ==
    \/ \E c \in Contexts, func \in Funcs : Submit(c, func)
    \/ \E c \in Contexts : AppendTask(c)
    \/ Take
    \/ \E t \in Contexts : Finish(t)
    \/ RunTasks
    \/ \E t \in Contexts : Yield(t)
    \/ Return

OrchSpec == OrchInit /\ [][OrchNext]_vars

(***************************************************************************)
(* AreionServer (areion/main.py): start(), stop() and the teardown         *)
(***************************************************************************)

\* the stop() calls the model follows
MaxStops == 2

\* AreionServer.__init__ and the with_ calls: start() not called yet, the
\* shutdown event clear, self.loop a new event loop with no callback.
\* has_routes: the router given to with_router, which asks only for add_route
\* and get_handler, has an attribute `routes` (Router of default/router.py
\* has none)
NewServer(has_routes, has_orchestrator) ==
    [start |-> "new", runner |-> "",
     has_routes |-> has_routes, has_orchestrator |-> has_orchestrator,
     event |-> FALSE, callbacks |-> 0, stops |-> 0,
     http |-> "none", http_event |-> FALSE,
     orchestrator_thread |-> "none", shutdowns |-> 0]

\* the event loops start() can run on: the one asyncio.run makes for run(),
\* or self.loop when the application runs start() on it itself
Runners == {"asyncio.run", "self.loop"}

AppUnchanged ==
    UNCHANGED <<router, rb, pc, script, request, pending, wire, keep_alive, calls,
                fed, ended, registered, resolved, scenario, logged, groups, made, orch>>

\* start() from its first line to its first await (lines 95-137): the
\* orchestrator thread is started, the HttpServer made and its start() made
\* a task; reading self.router.routes for the log line raises AttributeError
\* when the router has no such attribute, and the task then never runs
StartServer(runner) ==
    /\ app.start = "new"
    /\ app' = [app EXCEPT
                !.runner = runner,
                !.orchestrator_thread = IF app.has_orchestrator THEN "started" ELSE @,
                !.start = IF app.has_routes THEN "waiting" ELSE "AttributeError",
                !.http = IF app.has_routes THEN "created" ELSE "never run"]
    /\ AppUnchanged

\* the orchestrator thread runs _start_orchestrator
OrchestratorThread ==
    /\ app.orchestrator_thread = "started"
    /\ app' = [app EXCEPT !.orchestrator_thread = "running"]
    /\ AppUnchanged

\* HttpServer.start as a task of the running loop: asyncio.start_server,
\* then the wait on the event of the HttpServer
HttpStart ==
    /\ app.http = "created"
    /\ app.start \in {"waiting", "joining"}
    /\ app' = [app EXCEPT !.http = "serving"]
    /\ AppUnchanged

\* the server is running: start() has not ended
ServerRunning == app.start \in {"waiting", "joining", "orchestrator shutdown"}

\* stop(), called from a thread or a task while the server runs: the set of
\* the event is handed to self.loop with call_soon_threadsafe
Stop ==
    /\ ServerRunning
    /\ app.stops < MaxStops
    /\ app' = [app EXCEPT !.stops = @ + 1, !.callbacks = @ + 1]
    /\ AppUnchanged

\* self.loop runs a callback handed to it: only a loop that is running does
\* so, and self.loop runs only when start() was run on it
OwnLoopCallback ==
    /\ app.runner = "self.loop"
    /\ ServerRunning
    /\ app.callbacks > 0
    /\ app' = [app EXCEPT !.callbacks = @ - 1, !.event = TRUE]
    /\ AppUnchanged

\* the wait of line 137 ends; shutdown() sets the event of the HttpServer
\* (lines 148-149) and awaits the server task
Wake ==
    /\ app.start = "waiting"
    /\ app.event
    /\ app' = [app EXCEPT !.start = "joining", !.http_event = TRUE]
    /\ AppUnchanged

\* HttpServer.start returns: its event is set, the listening server closed
HttpStopped ==
    /\ app.http = "serving"
    /\ app.http_event
    /\ app' = [app EXCEPT !.http = "stopped"]
    /\ AppUnchanged

\* line 152 is passed; with an orchestrator its shutdown is handed to the
\* executor (lines 155-158)
Join ==
    /\ app.start = "joining"
    /\ app.http = "stopped"
    /\ app' = [app EXCEPT !.start = IF app.has_orchestrator
                                    THEN "orchestrator shutdown" ELSE "returned"]
    /\ AppUnchanged

\* orchestrator.shutdown() has run in the executor; shutdown() and start()
\* return
OrchestratorShutdown ==
    /\ app.start = "orchestrator shutdown"
    /\ app' = [app EXCEPT !.shutdowns = @ + 1, !.start = "returned"]
    /\ AppUnchanged

\* Ctrl+C under run() (lines 92-95): asyncio.run cancels start() and the
\* server task and closes its loop, then the except clause calls stop()
KeyboardInterrupt ==
    /\ app.runner = "asyncio.run"
    /\ app.start = "waiting"
    /\ app.stops < MaxStops
    /\ app' = [app EXCEPT !.start = "cancelled", !.http = "stopped",
                          !.stops = @ + 1, !.callbacks = @ + 1]
    /\ AppUnchanged

AppInit ==
    /\ \E has_routes \in BOOLEAN, has_orchestrator \in BOOLEAN :
            app = NewServer(has_routes, has_orchestrator)
    /\ orch = NewOrchestrator
    /\ made = NoResponse
    /\ router = NewRouter
    /\ groups = NoGroups
    /\ rb = NewBuilder
    /\ pc = [c \in Conns |-> "idle"]
    /\ script = [c \in Conns |-> <<>>]
    /\ request = [c \in Conns |-> NoRequest]
    /\ pending = [c \in Conns |-> NoPending]
    /\ wire = [c \in Conns |-> <<>>]
    /\ keep_alive = [c \in Conns |-> TRUE]
    /\ calls = [c \in Conns |-> <<>>]
    /\ fed = [c \in Conns |-> 0]
    /\ ended = [c \in Conns |-> ""]
    /\ logged = [c \in Conns |-> <<>>]
    /\ registered = <<>>
    /\ resolved = NoResolution
    /\ scenario = PlainScenario

AppNext ==
    \/ \E runner \in Runners : StartServer(runner)
    \/ OrchestratorThread
    \/ HttpStart
    \/ Stop
    \/ OwnLoopCallback
    \/ Wake
    \/ HttpStopped
    \/ Join
    \/ OrchestratorShutdown
    \/ KeyboardInterrupt

\* the tasks of a running loop and the threads are scheduled; nothing makes
\* the application call stop() or the user press Ctrl+C
AppSpec ==
    /\ AppInit
    /\ [][AppNext]_vars
    /\ WF_vars(OrchestratorThread)
    /\ WF_vars(HttpStart)
    /\ WF_vars(OwnLoopCallback)
    /\ WF_vars(Wake)
    /\ WF_vars(HttpStopped)
    /\ WF_vars(Join)
    /\ WF_vars(OrchestratorShutdown)

(***************************************************************************)
(* What the claims speak of                                                *)
(***************************************************************************)

Last(s) == s[Len(s)]

\* the requests whose bytes a request object was built from
Sources(req) ==
    {req.psrc, req.msrc} \cup {req.hsrc[n] : n \in DOMAIN req.hsrc} \cup Range(req.bsrc)

\* every dispatch made so far, as <<connection, index>>
Dispatches == UNION {{<<c, k>> : k \in 1..Len(calls[c])} : c \in Conns}

CallOf(x) == calls[x[1]][x[2]]

\* a registered pattern matches the segments of a path: a parameter segment
\* matches any segment, a literal only itself
Matches(pattern, segments) ==
    /\ Len(pattern) = Len(segments)
    /\ \A j \in 1..Len(pattern) :
            startswith_colon(pattern[j]) \/ pattern[j] = segments[j]

\* the registrations whose pattern matches a path
RoutesAt(path) ==
    {i \in 1..Len(Routes) : Matches(_split_path(Routes[i].path), _split_path(path))}

\* the methods registered at a path
MethodsAt(path) ==
    UNION {Range(valid_methods(Routes[i].methods)) : i \in RoutesAt(path)}

\* the parameters a pattern declares, bound to the segments at their places
DeclaredParams(pattern, segments) ==
    LET places == {j \in 1..Len(pattern) : startswith_colon(pattern[j])}
    IN [n \in {drop_first(pattern[j]) : j \in places} |->
            segments[CHOOSE j \in places : drop_first(pattern[j]) = n]]

\* the condition the specification gives for closing after a response
should_close(req) ==
    LET ch == lower(Get(req.headers, "connection", ""))
    IN ch = "close" \/ (req.sent_version = "HTTP/1.0" /\ ch # "keep-alive")

(***************************************************************************)
(* The claims                                                              *)
(***************************************************************************)

\* C1: within one connection every complete request gets exactly one
\* response, the responses are written in arrival order, and each is built
\* only from its own request.  Stated for the connections whose loop ended
\* without an exception (the client closed, or a Connection: close request
\* was served): by then the k requests the reads delivered have k responses,
\* the i-th answering the i-th dispatch, which was built from the bytes of
\* the i-th request alone.
C1_EveryRequestAnswered ==
    \A c \in Conns :
        ended[c] \in {"close", "eof"} =>
            /\ Len(wire[c]) = fed[c]
            /\ \A k \in 1..Len(wire[c]) :
                    /\ wire[c][k].answers = k
                    /\ Sources(calls[c][k].request) = {<<c, k>>}

\* C2: connections are independent: the request dispatched for a connection
\* is built only from bytes that connection sent (method, path, headers and
\* body), so that the response a connection receives answers its own
\* request.
C2_ConnectionsIndependent ==
    \A x \in Dispatches : \A s \in Sources(CallOf(x).request) : s[1] = x[1]

\* C3: after a dispatch the response is written with Connection: close and
\* the loop ends if and only if the request asked for close, or is HTTP/1.0
\* without keep-alive; otherwise the response carries keep-alive and the
\* connection stays open.
C3_ConnectionDecision ==
    \A x \in Dispatches :
        LET c == x[1]
            req == CallOf(x).request
            want == IF should_close(req) THEN "close" ELSE "keep-alive"
        IN /\ \E i \in 1..Len(wire[c]) :
                    /\ wire[c][i].answers = x[2]
                    /\ wire[c][i].headers["Connection"] = want
           /\ x[2] = Len(calls[c]) =>
                    IF should_close(req)
                    THEN pc[c] \in {"drain", "closed"}
                    ELSE pc[c] = "closed" => ended[c] \in {"timeout", "eof"}

C5_BadRequestAnswered ==
    \A c \in Conns :
        ended[c] = "HttpError 400" =>
            /\ wire[c] # <<>>
            /\ Last(wire[c]).status_code = 400

\* C6: a request whose path matches no registered route is answered 404 and
\* no handler is invoked for it.
C6_NotFound404 ==
    \A x \in Dispatches :
        RoutesAt(CallOf(x).request.path) = {} =>
            /\ CallOf(x).response.status_code = 404
            /\ CallOf(x).trace = <<>>

\* C7: a method that is not registered at an existing path yields 405 with
\* an Allow header listing exactly the methods registered at the path,
\* unlike a path without a route.
C7_MethodNotAllowed405 ==
    \A x \in Dispatches :
        LET req == CallOf(x).request IN
        (/\ RoutesAt(req.path) # {}
         /\ req.method \notin MethodsAt(req.path)
         /\ req.method \notin {"OPTIONS", "HEAD", "CONNECT"}) =>
            /\ CallOf(x).response.status_code = 405
            /\ "Allow" \in DOMAIN CallOf(x).response.headers
            /\ Range(CallOf(x).response.headers["Allow"]) = MethodsAt(req.path)

\* C8: resolving a path against a route with parameter segments binds every
\* declared name to the segment at its place (/items/:id and GET /items/42
\* give {id: "42"}).
C8_ParamsBound ==
    \A x \in Dispatches :
        LET req == CallOf(x).request IN
        \A i \in RoutesAt(req.path) :
            req.method \in Range(valid_methods(Routes[i].methods)) =>
                CallOf(x).path_params =
                    DeclaredParams(_split_path(Routes[i].path), _split_path(req.path))

\* a handler call that ran the handler function
Ran(call) == call.outcome.kind \in {"response", "value", "HttpError", "Exception"}

\* C9: when a request is served, the global middlewares run in registration
\* order, then the middlewares of the route in registration order, then the
\* handler.
C9_MiddlewareOrder ==
    \A x \in Dispatches :
        LET req == CallOf(x).request IN
        Ran(CallOf(x)) =>
            \E i \in RoutesAt(req.path) :
                /\ req.method \in Range(valid_methods(Routes[i].methods))
                /\ CallOf(x).trace =
                        GlobalMiddlewares \o Routes[i].middlewares \o <<Routes[i].handler>>

\* C9 witness: a request to the route with middlewares [C] was served, with
\* global middlewares [A, B]
C9_Witness ==
    \E x \in Dispatches :
        /\ Ran(CallOf(x))
        /\ CallOf(x).trace = <<"A", "B", "C", "h_sync">>

SentFor(x) == {i \in 1..Len(wire[x[1]]) : wire[x[1]][i].answers = x[2]}

\* C11: a handler failure never ends the connection loop: on a connection
\* that is to be kept alive, when the handler raised for a request the error
\* response for it is written and the loop is not ended by an exception, so
\* that the following request is still read.
C11_HandlerFailureKeepsLoop ==
    \A x \in Dispatches :
        (/\ CallOf(x).outcome.kind \in {"HttpError", "Exception"}
         /\ ~should_close(CallOf(x).request)) =>
            /\ SentFor(x) # {}
            /\ ended[x[1]] \notin {"AttributeError", "HttpError 400"}

\* C12: a HEAD request to a path with a GET handler runs the chain of that
\* GET handler as a GET request would (the middlewares, then the handler,
\* unless a middleware denies the request), and the response has the status
\* the outcome of that run gives and an empty body.
C12_HeadAsGet ==
    \A x \in Dispatches :
        LET call == CallOf(x)
            req == call.request
        IN (req.method = "HEAD" /\ "GET" \in MethodsAt(req.path)) =>
            /\ call.outcome.kind \in
                    {"response", "value", "HttpError", "Exception", "middleware response"}
            /\ \E i \in RoutesAt(req.path) :
                    /\ "GET" \in Range(valid_methods(Routes[i].methods))
                    /\ call.chain = GlobalMiddlewares \o Routes[i].middlewares
                                        \o <<Routes[i].handler>>
            /\ call.response.status_code = response_of(call.outcome).status_code
            /\ call.response.body = ""

\* C13: an OPTIONS request to a registered path is answered 204 without a
\* body, with an Allow header listing the methods registered at the path,
\* and no handler is invoked for it.
C13_OptionsAllow ==
    \A c \in Conns :
        (/\ "none" \notin DOMAIN request[c]
         /\ request[c].method = "OPTIONS"
         /\ RoutesAt(request[c].path) # {}) =>
            /\ wire[c] # <<>>
            /\ Last(wire[c]).status_code = 204
            /\ Last(wire[c]).body = ""
            /\ "Allow" \in DOMAIN Last(wire[c]).headers
            /\ Range(Last(wire[c]).headers["Allow"]) = MethodsAt(request[c].path)
            /\ Last(calls[c]).trace = <<>>

\* C14: when a global middleware returns a response without calling the
\* next handler, no route middleware and no handler runs for the request,
\* and the response of the middleware is the one sent.
C14_GlobalShortCircuit ==
    \A x \in Dispatches :
        LET call == CallOf(x) IN
        (/\ call.outcome.kind = "middleware response"
         /\ Last(call.trace) \in Range(GlobalMiddlewares)) =>
            /\ Range(call.trace) \subseteq Range(GlobalMiddlewares)
            /\ call.response.status_code = call.outcome.status_code
            /\ call.request.method # "HEAD" => call.response.body = call.outcome.text
            /\ \A i \in SentFor(x) :
                    wire[x[1]][i].status_code = call.outcome.status_code

\* the connections being read and served
Open == {c \in Conns : pc[c] \in {"read", "handler", "drain"}}

\* C18: the number of connections being read and served at the same time
\* never exceeds max_conns.
C18_AtMostMaxConns == Cardinality(Open) <= max_conns

size(req) == 2 + Cardinality(DOMAIN req.headers) + Len(req.body)

\* C20: a request larger than buffer_size is answered 413 with
\* Connection: close.
C20_TooLarge413 ==
    \A x \in Dispatches :
        LET call == CallOf(x) IN
        (/\ Sources(call.request) = {<<x[1], x[2]>>}
         /\ size(call.request) > buffer_size) =>
            /\ call.response.status_code = 413
            /\ \A i \in SentFor(x) :
                    /\ wire[x[1]][i].status_code = 413
                    /\ wire[x[1]][i].headers["Connection"] = "close"

\* the node of the trie a registered path ends at: its segments, every
\* parameter segment being the child ":"
trie_key(path) ==
    [j \in 1..Len(_split_path(path)) |->
        IF startswith_colon(_split_path(path)[j]) THEN ":" ELSE _split_path(path)[j]]

\* a path without parameter segments
literal(path) == \A j \in 1..Len(path) : ~startswith_colon(path[j])

\* registration i is the last one made for method m at its node
Latest(i, m) ==
    \A j \in (i + 1)..Len(registered) :
        trie_key(registered[j].path) = trie_key(registered[i].path) =>
            m \notin Range(valid_methods(registered[j].methods))

\* get_handler has been called since the last registration
Resolved == "method" \in DOMAIN resolved

\* C15: registering a path again with other methods keeps the earlier
\* entries: every method registered at a node and not registered there again
\* later has the handler, the middlewares and the kind it was registered
\* with, and resolves to that handler.
C15_DisjointMethodsKept ==
    \A i \in 1..Len(registered) :
        \A m \in Range(valid_methods(registered[i].methods)) :
            Latest(i, m) =>
                LET node == trie_key(registered[i].path) IN
                /\ node \in DOMAIN router.nodes
                /\ m \in DOMAIN router.nodes[node].handler
                /\ router.nodes[node].handler[m] =
                        [handler |-> registered[i].handler,
                         is_async |-> iscoroutinefunction(registered[i].handler),
                         middlewares |-> registered[i].middlewares]
                /\ (/\ Resolved
                    /\ literal(registered[i].path)
                    /\ resolved.method = m
                    /\ resolved.path = registered[i].path) =>
                        /\ ~resolved.result.none
                        /\ Last(resolved.result.handler) = registered[i].handler

\* C15 witness: /hello was registered for GET and later for POST with another
\* handler, and GET /hello was then resolved to the first handler
C15_Witness ==
    /\ Resolved
    /\ \E i, j \in 1..Len(registered) :
            /\ i < j
            /\ registered[i].path = registered[j].path
            /\ Range(valid_methods(registered[i].methods))
                    \cap Range(valid_methods(registered[j].methods)) = {}
            /\ registered[i].handler # registered[j].handler
            /\ resolved.path = registered[i].path
            /\ resolved.method \in Range(valid_methods(registered[i].methods))
            /\ ~resolved.result.none
            /\ Last(resolved.result.handler) = registered[i].handler

\* C16: resolving the method and the path of a registered route without
\* parameter segments returns the handler registered for it, behind the
\* global and the route's middlewares, with the kind (synchronous or
\* asynchronous) of that handler and no path parameters.
C16_LiteralMatch ==
    \A i \in 1..Len(registered) :
        \A m \in Range(valid_methods(registered[i].methods)) :
            (/\ Latest(i, m)
             /\ literal(registered[i].path)
             /\ Resolved
             /\ resolved.method = m
             /\ resolved.path = registered[i].path) =>
                /\ ~resolved.result.none
                /\ resolved.result.handler =
                        GlobalMiddlewares \o registered[i].middlewares
                            \o <<registered[i].handler>>
                /\ resolved.result.is_async = iscoroutinefunction(registered[i].handler)
                /\ resolved.result.path_params = EmptyDict

\* C16 witness: a literal route with an asynchronous handler was resolved,
\* and so was a literal route that has a parameter route beside it
C16_Witness ==
    /\ Resolved
    /\ ~resolved.result.none
    /\ \E i \in 1..Len(registered) :
            /\ literal(registered[i].path)
            /\ resolved.path = registered[i].path
            /\ Last(resolved.result.handler) = registered[i].handler
            /\ \/ iscoroutinefunction(registered[i].handler)
               \/ \E j \in 1..Len(registered) :
                    /\ ~literal(registered[j].path)
                    /\ Len(registered[j].path) = Len(registered[i].path)

\* C17: a path never resolves to a pattern with another number of segments;
\* with only /items/:id registered, /items and /items/42/extra resolve to
\* nothing.
C17_SegmentCount ==
    Resolved =>
        /\ \A i \in 1..Len(registered) :
                Len(_split_path(registered[i].path)) # Len(_split_path(resolved.path)) =>
                    \/ resolved.result.none
                    \/ Last(resolved.result.handler) # registered[i].handler
        /\ (/\ registered = <<Routes[2]>>
            /\ resolved.path \in {<<"/", "items">>,
                                  <<"/", "items", "/", "42", "/", "extra">>}) =>
                resolved.result.none

\* C17 witness: with only /items/:id registered, GET /items/42/extra was
\* resolved
C17_Witness ==
    /\ registered = <<Routes[2]>>
    /\ Resolved
    /\ resolved.method = "GET"
    /\ resolved.path = <<"/", "items", "/", "42", "/", "extra">>
    /\ resolved.result.none

\* the children of a trie node that stand for a parameter segment
DynamicChildren(node) ==
    {k \in DOMAIN router.nodes :
        /\ Len(k) = Len(node) + 1
        /\ SubSeq(k, 1, Len(node)) = node
        /\ startswith_colon(k[Len(k)])}

\* a path a parameter route matches: "7" at the place of each parameter
Concrete(path) ==
    [j \in 1..Len(path) |-> IF startswith_colon(path[j]) THEN "7" ELSE path[j]]

\* C35: every node of the trie has at most one dynamic child, whatever the
\* names of the parameters registered below it: routes that name the
\* parameter of one position differently share the branch, and each is
\* still resolved, by its own methods and under its own sub-paths, to the
\* handler it was registered with.
C35_OneDynamicChild ==
    /\ \A node \in DOMAIN router.nodes : Cardinality(DynamicChildren(node)) <= 1
    /\ \A i \in 1..Len(registered) :
            \A m \in Range(valid_methods(registered[i].methods)) :
                (/\ ~literal(registered[i].path)
                 /\ Latest(i, m)
                 /\ Resolved
                 /\ resolved.method = m
                 /\ resolved.path = Concrete(registered[i].path)) =>
                    /\ ~resolved.result.none
                    /\ Last(resolved.result.handler) = registered[i].handler

\* C35 witness: /users/:id and /users/:name are both registered, with a
\* sub-path below one of them, and a path was resolved through the branch
\* they share
C35_Witness ==
    /\ {UserRoutes[2], UserRoutes[3]} \subseteq Range(registered)
    /\ Cardinality(DynamicChildren(<<"users">>)) = 1
    /\ Resolved
    /\ resolved.path \in {<<"/", "users", "/", "7">>, <<"/", "users", "/", "7", "/", "posts">>}
    /\ ~resolved.result.none

\* C36: at each level a literal child is preferred to the dynamic branch:
\* with /users/me and /users/:id both registered for GET, GET /users/me is
\* resolved to the handler of /users/me with no path parameters and
\* GET /users/7 to the handler of /users/:id.
C36_LiteralPreferred ==
    (/\ {UserRoutes[1], UserRoutes[2]} \subseteq Range(registered)
     /\ Resolved
     /\ resolved.method = "GET") =>
        /\ resolved.path = <<"/", "users", "/", "me">> =>
                /\ ~resolved.result.none
                /\ Last(resolved.result.handler) = "h_me"
                /\ resolved.result.path_params = EmptyDict
        /\ resolved.path = <<"/", "users", "/", "7">> =>
                /\ ~resolved.result.none
                /\ Last(resolved.result.handler) = "h_user"

\* C36 witness: GET /users/me was resolved with the parameter route
\* registered before the literal one
C36_Witness ==
    /\ \E i, j \in 1..Len(registered) :
            i < j /\ registered[i] = UserRoutes[2] /\ registered[j] = UserRoutes[1]
    /\ Resolved
    /\ resolved.method = "GET"
    /\ resolved.path = <<"/", "users", "/", "me">>
    /\ ~resolved.result.none

\* C37: resolution does not backtrack: once the literal child "me" has
\* matched, the dynamic branch of that level is not tried when the rest of
\* the path fails below it: with /users/me/a (or /users/me) registered,
\* GET /users/me/b has no match, /users/:id/b being registered or not.
C37_NoBacktracking ==
    (/\ Range(registered) \cap {UserRoutes[1], UserRoutes[5]} # {}
     /\ Resolved
     /\ resolved.path = <<"/", "users", "/", "me", "/", "b">>) =>
        resolved.result.none

\* C37 witness: with only /users/me/a and /users/:id/b registered,
\* GET /users/me/b was resolved
C37_Witness ==
    /\ Range(registered) = {UserRoutes[5], UserRoutes[6]}
    /\ Resolved
    /\ resolved.method = "GET"
    /\ resolved.path = <<"/", "users", "/", "me", "/", "b">>
    /\ resolved.result.none

(***************************************************************************)
(* Logging, header lookup                                                  *)
(***************************************************************************)

\* the task of connection c made a log call at level "error" that carries
\* the text of an exception
Reported(c, text) ==
    \E i \in 1..Len(logged[c]) :
        /\ logged[c][i].level = "error"
        /\ logged[c][i].message \in {text, "Routing error: " \o text}

\* C21: when a handler raises an exception that is no HttpError, the error
\* is reported to the logger (and the client gets the generic 500).
C21_HandlerErrorLogged ==
    \A x \in Dispatches :
        CallOf(x).outcome.kind = "Exception" =>
            /\ Reported(x[1], CallOf(x).outcome.text)
            /\ CallOf(x).response.status_code = 500

\* C22: a failure of the logger never affects the delivery of the response:
\* a request that asks for the connection to be closed and whose routing
\* raised has its response written, whatever the logger did with the report.
C22_LoggerFailureHarmless ==
    \A x \in Dispatches :
        (/\ CallOf(x).outcome.kind = "routing error"
         /\ should_close(CallOf(x).request)) =>
            /\ SentFor(x) # {}
            /\ \A i \in SentFor(x) : wire[x[1]][i].status_code = 500

\* the spellings of a header name a caller can use
Spellings(name) ==
    {k \in {"Connection", "CONNECTION", "connection", "Content-Type", "content-type",
            "Content-Length", "content-length"} : lower(k) = name}

\* C28: header names of a request are case-insensitive: get_header returns
\* the value of a header in whatever letter case the name is given, and a
\* request sent with Content-Type: application/json and a JSON body yields
\* the decoded object from get_parsed_body.
C28_HeadersCaseInsensitive ==
    \A x \in Dispatches :
        LET req == CallOf(x).request
        IN /\ \A name \in DOMAIN req.headers : \A k \in Spellings(name) :
                    get_header(req, k) = req.headers[name]
           /\ (/\ Get(req.headers, "content-type", None) = "application/json"
               /\ req.body # <<>>) =>
                    get_parsed_body(req) = orjson_loads(req.body)

\* the last two get_handler calls had the same arguments, and no
\* registration was made between them
Repeated == Resolved /\ "first" \notin DOMAIN resolved.previous

\* C23: get_handler is read-only and idempotent: the trie and the list of
\* global middlewares are after any number of calls what the registrations
\* made them, and a call repeated with the same arguments returns the same
\* result.
C23_ResolveReadOnly ==
    /\ router = add_routes(add_globals(NewRouter, GlobalMiddlewares), registered)
    /\ Repeated => resolved.result = resolved.previous

\* C23 witness: a route with global and route middlewares has been resolved
\* twice in a row
C23_Witness ==
    /\ Repeated
    /\ ~resolved.result.none
    /\ Len(resolved.result.handler) > Len(GlobalMiddlewares) + 1

(***************************************************************************)
(* Groups and rejected registrations                                       *)
(***************************************************************************)

\* what the application means by each of its registration calls: the full
\* path, a request path that matches it, and the middlewares of the route
\* followed by those of its groups, innermost group first
Meant ==
    << [path |-> <<"/", "api", "/", "users">>, probe |-> <<"/", "api", "/", "users">>,
        middlewares |-> <<"C", "G">>],
       [path |-> <<"/", "api", "/", "users", "/", ":id">>,
        probe |-> <<"/", "api", "/", "users", "/", "42">>, middlewares |-> <<"G">>],
       [path |-> <<"/", "api", "/", "v1", "/", "ping">>,
        probe |-> <<"/", "api", "/", "v1", "/", "ping">>,
        middlewares |-> <<"D", "H", "G">>],
       [path |-> <<"/", "admin", "/", "stats">>, probe |-> <<"/", "admin", "/", "stats">>,
        middlewares |-> <<>>],
       [path |-> <<"/", "hello">>, probe |-> <<"/", "hello">>, middlewares |-> <<"C">>],
       [path |-> <<"/", "api", "/", "bad">>, probe |-> <<"/", "api", "/", "bad">>,
        middlewares |-> <<>>],
       [path |-> <<"/", "users">>, probe |-> <<"/", "users">>, middlewares |-> <<"C">>] >>

\* the last registration call went through
LastRegistered == groups.last # 0 /\ ~groups.raised

\* C24: a route registered on a group is registered on the parent router:
\* at the base path joined to the sub-path with exactly one "/" (also with
\* a "/" at the end of the base path, for nested groups and for the route
\* decorator of the group), with the middlewares of the route and of the
\* group; the group keeps no routing table of its own.
C24_GroupOnParent ==
    LastRegistered =>
        LET x == GroupCalls[groups.last]
            meant == Meant[groups.last]
        IN /\ groups.passed.path = meant.path
           /\ groups.passed.middlewares = meant.middlewares
           /\ \A n \in GroupNames : groups.sub_routers[n] = NewRouter
           /\ (/\ Resolved
               /\ resolved.path = meant.probe
               /\ resolved.method \in {upper(x.args.methods[j]) :
                                            j \in 1..Len(x.args.methods)}) =>
                    /\ ~resolved.result.none
                    /\ resolved.result.handler =
                            (GlobalMiddlewares \o meant.middlewares) \o <<x.args.handler>>

\* C24 witness: the route registered on the nested group, whose base path
\* ends with "/", has been resolved at the joined path after a route was
\* registered with the decorator of a group
C24_Witness ==
    /\ LastRegistered
    /\ GroupCalls[groups.last].on = "v1"
    /\ \E j \in 1..Len(registered) : registered[j].path = Meant[2].path
    /\ Resolved
    /\ resolved.method = "POST"
    /\ resolved.path = Meant[3].probe
    /\ ~resolved.result.none

\* the middlewares of the groups a router object stands in, innermost first
RECURSIVE GroupChain(_)
GroupChain(on) ==
    IF on \in GroupNames THEN Groups[on].middlewares \o GroupChain(Groups[on].parent)
    ELSE <<>>

\* C38: for a route registered through a group, with middlewares of its own
\* and middlewares of the group, a request that every layer passes on runs
\* the global middlewares first, then the route's own, then the group's
\* (those of an enclosing group after those of the group inside it), then
\* the handler.
C38_GroupMiddlewareOrder ==
    LET x == GroupCalls[groups.last] IN
    (/\ LastRegistered
     /\ x.on \in GroupNames
     /\ Resolved
     /\ resolved.path = Meant[groups.last].probe
     /\ ~resolved.result.none) =>
        \A ret \in Returns(resolved.result.handler) :
            Ran(ret) =>
                ret.trace = ((GlobalMiddlewares \o x.args.middlewares)
                                \o GroupChain(x.on)) \o <<x.args.handler>>

\* C38 witness: the route registered on group api with its own middleware C
\* was resolved, and so was the one registered on the nested group
C38_Witness ==
    /\ LastRegistered
    /\ Resolved
    /\ ~resolved.result.none
    /\ \/ /\ groups.last = 1
          /\ resolved.path = Meant[1].probe
          /\ resolved.result.handler = <<"A", "B", "C", "G", "h_sync">>
       \/ /\ groups.last = 3
          /\ resolved.path = Meant[3].probe
          /\ resolved.result.handler = <<"A", "B", "D", "H", "G", "h_async">>

\* C25: add_route fails when none of the methods given is a valid one, as
\* for ["INVALID"] and [""], and only then, and a failed call leaves the trie
\* as it was.
C25_InvalidMethodsRejected ==
    groups.last # 0 =>
        /\ groups.raised <=>
                Range(GroupCalls[groups.last].args.methods) \subseteq {"INVALID", ""}
        /\ groups.raised =>
                /\ router = groups.before
                /\ \A n \in GroupNames : groups.sub_routers[n] = NewRouter

\* C25 witness: a registration with no valid method failed on a router that
\* already has routes
C25_Witness ==
    /\ groups.last # 0
    /\ groups.raised
    /\ registered # <<>>
    /\ router = groups.before

(***************************************************************************)
(* Response formatting                                                     *)
(***************************************************************************)

\* the formatted bytes of the last response, read as a client reads them:
\* the head ends with the first blank line, the body is what follows
HeadEnd == CHOOSE i \in 1..Len(made.bytes) : made.bytes[i].t = "blank"
SentHeader(name) ==
    LET i == CHOOSE j \in 1..HeadEnd : made.bytes[j].t = "header" /\ made.bytes[j].name = name
    IN made.bytes[i].value
SentBody == SubSeq(made.bytes, HeadEnd + 1, Len(made.bytes))

Formatted == "none" \notin DOMAIN made /\ made.formatted

\* the number of bytes each body of the application takes on the wire
WireLength(body) ==
    CASE body = DictBody(<<>>) -> 2
      [] body = DictBody(<< <<<<"k">>, <<"e-acute">>>> >>) -> 15
      [] body = DictBody(<< <<<<"a">>, <<"1">>>>, <<<<"b">>, <<"2">>>> >>) -> 20
      [] body = StrBody(<<"H", "i">>) -> 2
      [] body = StrBody(<<"h", "e-acute", "euro">>) -> 6
      [] body = StrBody(<<"<", "h", "t", "m", "l", ">", "e-acute">>) -> 8
      [] body = StrBody(<<"<", "b", ">", "H", "i", "<", "/", "b", ">">>) -> 9
      [] body = BytesBody(<<"00", "ff", "c3">>) -> 3
      [] body = NoneBody -> 4
      [] OTHER -> 0

\* C26: the Content-Length header of a formatted response is the number of
\* body bytes that follow the head, for a mapping, a text (also with
\* multi-byte characters), a binary, an empty and a None body; a mapping
\* body formatted without an explicit content type has Content-Type
\* application/json.
C26_ContentLength ==
    Formatted =>
        /\ SentHeader("Content-Length") = Len(SentBody)
        /\ Len(SentBody) = WireLength(made.response.body)
        /\ \A i \in 1..Len(SentBody) : SentBody[i].t = "byte"
        /\ (made.response.body.variant = "dict" /\ made.given = None) =>
                SentHeader("Content-Type") = "application/json"

\* C26 witness: a text body with multi-byte characters has been formatted
C26_Witness ==
    /\ Formatted
    /\ made.response.body = StrBody(<<"h", "e-acute", "euro">>)
    /\ SentHeader("Content-Length") = 6

\* a text contains markup: a tag is opened and closed in it
HasMarkup(text) ==
    \E i \in 1..Len(text) : \E j \in (i + 1)..Len(text) : text[i] = "<" /\ text[j] = ">"

\* the content type the body variant stands for
ByVariant(body) ==
    CASE body.variant = "dict" -> {"application/json"}
      [] body.variant = "str" ->
            IF HasMarkup(body.text) THEN {"text/html"} ELSE {"text/plain"}
      [] body.variant = "bytes" -> {"application/octet-stream"}
      [] OTHER -> {"text/plain", "application/octet-stream", "application/json", "text/html"}

\* C27: a response built without an explicit content type, also one made
\* from what a handler returned, has the content type of its body variant
\* (mapping: application/json, text with markup: text/html, other text:
\* text/plain, binary: application/octet-stream); an explicit content type is
\* always kept.
C27_ContentTypeInferred ==
    "none" \notin DOMAIN made =>
        IF made.given = None
        THEN made.response.content_type \in ByVariant(made.response.body)
        ELSE made.response.content_type = made.given

(***************************************************************************)
(* The orchestrator                                                        *)
(***************************************************************************)

\* how often future t is in the task list, whether it waits in the queue
Occurrences(t) == Cardinality({i \in 1..Len(orch.tasks) : orch.tasks[i] = t})
Queued(t) == \E i \in 1..Len(orch.queue) : orch.queue[i] = t

\* C29: every task handed to submit_task is executed exactly once by the
\* pool (it waits in the queue and has not run, or it has left the queue
\* and has run once), and with contexts calling submit_task at the same
\* time no submission is lost or duplicated in the task list: one future
\* for each call that got as far as the append.
C29_SubmittedOnce ==
    \A c \in Contexts :
        /\ orch.sub[c].pc = "idle" =>
                orch.runs[c] = 0 /\ ~Queued(c) /\ Occurrences(c) = 0
        /\ orch.sub[c].pc # "idle" =>
                /\ Queued(c) => orch.runs[c] = 0 /\ orch.future[c] = "pending"
                /\ ~Queued(c) => orch.runs[c] = 1 /\ orch.future[c] # "pending"
        /\ orch.sub[c].pc = "submitted" => Occurrences(c) = 0
        /\ orch.sub[c].pc = "returned" => Occurrences(c) = 1

\* C29 witness: every context has come back from submit_task, each of them
\* having entered it when the task list was still empty, and every task has
\* run
C29_Witness ==
    /\ \A c \in Contexts : orch.sub[c].pc = "returned" /\ orch.sub[c].seen = <<>>
    /\ \A c \in Contexts : c \in Done
    /\ Len(orch.tasks) = MaxContexts

\* the place of a log call about task t in the log, 0 when there is none
LoggedAt(level, t) ==
    IF \E i \in 1..Len(orch.log) :
            orch.log[i].level = level /\ orch.log[i].task = t
                /\ orch.log[i].message # "submitted" /\ orch.log[i].message # "running"
    THEN CHOOSE i \in 1..Len(orch.log) :
            orch.log[i].level = level /\ orch.log[i].task = t
                /\ orch.log[i].message # "submitted" /\ orch.log[i].message # "running"
    ELSE 0

\* C30: run_tasks is left only when every task submitted before the call
\* has finished; a task that raised is logged as an error and the tasks
\* after it are still waited for.
C30_RunTasksWaits ==
    orch.runner.pc \in {"returned", "raised"} =>
        /\ orch.runner.pc = "returned"
        /\ \A t \in orch.runner.before :
            /\ t \in Done
            /\ orch.func[t] = "raises" => LoggedAt("error", t) # 0
            /\ orch.func[t] = "returns" => LoggedAt("info", t) # 0

\* C30 witness: run_tasks has returned; a task submitted before the call
\* raised, and another one submitted before the call was reported after it
C30_Witness ==
    /\ orch.runner.pc = "returned"
    /\ \E t, u \in orch.runner.before :
        /\ orch.func[t] = "raises"
        /\ orch.func[u] = "returns"
        /\ 0 < LoggedAt("error", t)
        /\ LoggedAt("error", t) < LoggedAt("info", u)

(***************************************************************************)
(* Teardown                                                                *)
(***************************************************************************)

\* the request object a builder of its own makes of a request that arrives
\* in a single read
SingleRead(w, src) ==
    LET b == feed_data(NewBuilder, Tokens(w, src))
    IN Snapshot(b, get_request(b))

\* the requests the clients of the split scenario send whole
SplitWires == {W_hello_close, W_echo_close}

\* C32: however the bytes of one request are split into consecutive reads,
\* the request dispatched is the one a single read of the same bytes gives
\* (the builder going through request line, headers, body and completion),
\* and the handler is called once, and only after the read that completes
\* the request: no dispatch is made or in progress for a connection before
\* the completing read, and once the completing read has been dispatched
\* and answered there is one call, made with the single-read request.
C32_SplitReads ==
    \A c \in Conns :
        /\ (pc[c] = "handler" \/ calls[c] # <<>>) => fed[c] >= 1
        /\ (fed[c] = 1 /\ pc[c] \in {"drain", "closed"}) =>
                /\ Len(calls[c]) = 1
                /\ \E w \in SplitWires :
                        calls[c][1].request = SingleRead(w, <<c, 1>>)

\* C33: after reset() nothing of the previous request is left in the
\* builder (method, path, version, headers, body), and a second request
\* parsed on the same connection after the reset is made of its own bytes
\* only: the k-th request taken from the builder has the k-th request of
\* the stream as the only source of its method, path, headers and body.
C33_ResetForgets ==
    /\ ended[1] = "reset" =>
            /\ rb.method = None
            /\ rb.path = <<>>
            /\ rb.http_version = None
            /\ rb.headers = EmptyDict
            /\ rb.body = <<>>
            /\ rb.parser = NewParser
    /\ \A k \in 1..Len(calls[1]) : Sources(calls[1][k].request) = {<<1, k>>}

\* a second request was taken after a first one that had headers and a body
C33_Witness ==
    /\ Len(calls[1]) = 2
    /\ calls[1][1].request.body # <<>>
    /\ DOMAIN calls[1][1].request.headers # {}
    /\ calls[1][2].request.body # <<>>

\* the builder holds nothing of any request: the state reset() leaves
Clean(b) == reset(b) = b

\* C34: a connection that ends in the middle of a request (the client
\* closes, the read times out, or the parser rejects the bytes) leaves no
\* partial parse state behind: once it is closed and no other connection is
\* open, the builder that will parse the first request of the next
\* connection is in the state reset() leaves.
C34_NoPartialState ==
    \A c \in Conns :
        (/\ pc[c] = "closed"
         /\ ended[c] \in {"eof", "timeout", "HttpError 400"}
         /\ \A d \in Conns \ {c} : pc[d] \in {"idle", "closed"})
            => Clean(rb)

\* C39: every accepted connection is closed in the end, and closed once:
\* whichever way its request processing ends (the client closes, a
\* Connection: close request is served, the read times out, an exception
\* leaves the loop), the writer is closed and the task is over; a closed
\* connection stays closed, with the ending it had.
C39_EventuallyClosed ==
    /\ \A c \in Conns : (pc[c] # "idle") ~> (pc[c] = "closed")
    /\ [][\A c \in Conns :
            pc[c] = "closed" => (pc'[c] = "closed" /\ ended'[c] = ended[c])]_vars

\* C39 witness: one connection was closed after an exception left the loop,
\* another after its client closed or the read timed out
C39_Witness ==
    \E c, d \in Conns :
        /\ pc[c] = "closed" /\ ended[c] = "HttpError 400"
        /\ pc[d] = "closed" /\ ended[d] \in {"eof", "timeout", "close"}

\* C31: after stop() is called on a running AreionServer the teardown
\* happens in the end: the shutdown event is set, the HTTP server stopped,
\* orchestrator.shutdown called exactly once, and start() returns.
C31_StopTearsDown ==
    (app.stops > 0 /\ app.start = "waiting") ~>
        (/\ app.start = "returned"
         /\ app.event
         /\ app.http = "stopped"
         /\ app.has_orchestrator => app.shutdowns = 1)

====
